---------------------------- MODULE Spec2Model ----------------------------
(***************************************************************************)
(* A model of ExoPlex's structural solver (src/ExoPlex/minphys.py) and of  *)
(* the drivers in src/ExoPlex/run_planet.py.                               *)
(*                                                                         *)
(* Numbers.  The program computes with IEEE doubles (numpy float64).  A    *)
(* value of the model is a pair <<n, d>> with d >= 0:                      *)
(*     d > 0            the rational n/d in lowest terms,                  *)
(*     <<0, 0>>         not-a-number,                                      *)
(*     <<1, 0>>, <<-1, 0>>   plus and minus infinity.                      *)
(* The operations follow IEEE for the special values (x/0 is an infinity,  *)
(* 0/0 and inf*0 and inf-inf are NaN, every comparison with NaN is false); *)
(* finite results are exact, rounding is not modelled.                     *)
(*                                                                         *)
(* Indices.  Python sequences are 0-based, the sequences here 1-based:     *)
(* layer i of the program is element i+1 of the model.                     *)
(***************************************************************************)
EXTENDS Integers, Sequences, FiniteSets, TLC

VARIABLES layers, Planet, grids, minerals, Core_wt_per, args, pc, res

vars == <<layers, Planet, grids, minerals, Core_wt_per, args, pc, res>>

-----------------------------------------------------------------------------
(* Extended rational arithmetic standing for float64. *)

AbsInt(n) == IF n < 0 THEN -n ELSE n

SignInt(n) == IF n < 0 THEN -1 ELSE IF n > 0 THEN 1 ELSE 0

RECURSIVE GCD(_, _)
GCD(a, b) == IF b = 0 THEN a ELSE GCD(b, a % b)

Norm(n, d) ==
    IF d = 0 THEN <<SignInt(n), 0>>
    ELSE LET s == IF d < 0 THEN -1 ELSE 1
             g == GCD(AbsInt(n), AbsInt(d))
         IN  <<(s * n) \div g, (s * d) \div g>>

R(n) == <<n, 1>>

Q(n, d) == Norm(n, d)

NaN == <<0, 0>>

PInf == <<1, 0>>

Zero == <<0, 1>>

One == <<1, 1>>

IsNaN(a) == a = NaN

IsFinite(a) == a[2] > 0

Neg(a) == <<-a[1], a[2]>>

Abs(a) == <<AbsInt(a[1]), a[2]>>

Add(a, b) ==
    IF a[2] = 0 /\ b[2] = 0
    THEN (IF a[1] = b[1] THEN a ELSE NaN)
    ELSE IF a[2] = 0 THEN a
    ELSE IF b[2] = 0 THEN b
    ELSE LET g == GCD(a[2], b[2])
         IN  Norm(a[1] * (b[2] \div g) + b[1] * (a[2] \div g), (a[2] \div g) * b[2])

Sub(a, b) == Add(a, Neg(b))

(* Products are cancelled crosswise before multiplying, to keep the integers small. *)
Mul(a, b) ==
    IF a[2] = 0 \/ b[2] = 0
    THEN <<SignInt(a[1]) * SignInt(b[1]), 0>>
    ELSE LET g1 == GCD(AbsInt(a[1]), b[2])
             g2 == GCD(AbsInt(b[1]), a[2])
         IN  Norm((a[1] \div g1) * (b[1] \div g2), (a[2] \div g2) * (b[2] \div g1))

Div(a, b) ==
    IF IsNaN(a) \/ IsNaN(b) THEN NaN
    ELSE IF b[2] = 0 THEN (IF a[2] = 0 THEN NaN ELSE Zero)
    ELSE IF b[1] = 0 THEN <<SignInt(a[1]), 0>>
    ELSE IF a[2] = 0 THEN <<a[1] * SignInt(b[1]), 0>>
    ELSE Mul(a, Norm(b[2] * SignInt(b[1]), AbsInt(b[1])))

Gt(a, b) ==
    /\ ~IsNaN(a)
    /\ ~IsNaN(b)
    /\ IF a[2] = 0 /\ b[2] = 0 THEN a[1] > b[1]
       ELSE IF a[2] = 0 THEN a[1] > 0
       ELSE IF b[2] = 0 THEN b[1] < 0
       ELSE LET g == GCD(a[2], b[2])
                fa == a[1] \div a[2]
                fb == b[1] \div b[2]
            IN  IF fa # fb THEN fa > fb
                ELSE (a[1] % a[2]) * (b[2] \div g) > (b[1] % b[2]) * (a[2] \div g)

Ge(a, b) == ~IsNaN(a) /\ ~IsNaN(b) /\ ~Gt(b, a)

Lt(a, b) == Gt(b, a)

Le(a, b) == Ge(b, a)

-----------------------------------------------------------------------------
(* Sequence helpers for Python slices and numpy concatenation. *)

Slice(s, lo, hi) == [k \in 1..(IF hi >= lo THEN hi - lo + 1 ELSE 0) |-> s[lo + k - 1]]

Reverse(s) == [k \in 1..Len(s) |-> s[Len(s) + 1 - k]]

Sum3(t) == t[1] + t[2] + t[3]


-----------------------------------------------------------------------------
(* Outcomes of a call: a returned value, sys.exit(), or an uncaught exception. *)

Ok(v) == [kind |-> "ok", val |-> v, flag |-> FALSE, why |-> "", at |-> <<>>]

(* A returned pair (flag, v). *)
OkFlag(f, v) == [kind |-> "ok", val |-> v, flag |-> f, why |-> "", at |-> <<>>]

Exit(why, at) == [kind |-> "exit", val |-> <<>>, flag |-> FALSE, why |-> why, at |-> at]

Raise(why) == [kind |-> "raise", val |-> <<>>, flag |-> FALSE, why |-> why, at |-> <<>>]

-----------------------------------------------------------------------------
(* Program constants. *)

ToPa == 100000

ToBar == Q(1, ToPa)

MantleSplit == 1250000

WaterMinP == 1

WaterMinT == 300

IceRefT == 300

Tolerance == Q(1, 1000)

mFe == Q(55845, 1000)

mSi == Q(280867, 10000)

mO == Q(159994, 10000)

mS == Q(32065, 1000)

IceThermal == Q(1158, 10000000)

-----------------------------------------------------------------------------
(* The EOS grids.  grids[1..4] are the upper-mantle, lower-mantle, core and
   water grids (grids[0..3] of the program).  An interpolator is a finite table
   over (pressure, temperature) points; outside the table (outside the convex
   hull of the tabulated data) it returns not-a-number. *)

Interp(tab, p, t) == IF <<p, t>> \in DOMAIN tab THEN tab[<<p, t>>] ELSE NaN

InterpAll(tab, Ps, Ts) == [k \in 1..Len(Ps) |-> Interp(tab, Ps[k], Ts[k])]

(* np.exp.  Exact at 0, positive and strictly increasing; elsewhere a rational
   stand-in for the transcendental value. *)
Exp(x) ==
    IF IsNaN(x) THEN NaN
    ELSE IF x[2] = 0 THEN (IF x[1] > 0 THEN PInf ELSE Zero)
    ELSE IF x[1] >= 0 THEN Add(One, x)
    ELSE Div(One, Add(One, Neg(x)))

(* The ascending sequence of the indices k in 1..n with Keep[k]. *)
RECURSIVE IdxWhere(_, _)
IdxWhere(Keep, n) ==
    IF n = 0 THEN <<>>
    ELSE IF Keep[n] THEN Append(IdxWhere(Keep, n - 1), n)
    ELSE IdxWhere(Keep, n - 1)

Pick(s, idx) == [m \in 1..Len(idx) |-> s[idx[m]]]

MinOf(S) == CHOOSE x \in S : \A y \in S : x <= y

-----------------------------------------------------------------------------
(* The repair sweep of get_rho (lines 135-138) and get_water_rho (237-240):
   for i = len-2 .. 0, a layer whose outward neighbour is denser is replaced by
   a linear extrapolation in pressure through layers i+1 and i+5.  Reading layer
   i+5 past the end of the band is an IndexError. *)

RECURSIVE SweepFrom(_, _, _)
SweepFrom(data, P, i) ==
    IF i < 1 THEN [ok |-> TRUE, data |-> data]
    ELSE IF Gt(data[i + 1], data[i])
    THEN IF i + 5 > Len(data) THEN [ok |-> FALSE, data |-> data]
         ELSE LET drhodP == Div(Sub(data[i + 1], data[i + 5]), Sub(P[i + 1], P[i + 5]))
                  new == Add(data[i + 1], Mul(Sub(P[i], P[i + 1]), drhodP))
              IN  SweepFrom([data EXCEPT ![i] = new], P, i - 1)
    ELSE SweepFrom(data, P, i - 1)

(* The sweep with the extrapolation step taken the wrong way round
   (P[i+1] - P[i] for P[i] - P[i+1]). *)
RECURSIVE SweepFromSignSlip(_, _, _)
SweepFromSignSlip(data, P, i) ==
    IF i < 1 THEN [ok |-> TRUE, data |-> data]
    ELSE IF Gt(data[i + 1], data[i])
    THEN IF i + 5 > Len(data) THEN [ok |-> FALSE, data |-> data]
         ELSE LET drhodP == Div(Sub(data[i + 1], data[i + 5]), Sub(P[i + 1], P[i + 5]))
                  new == Add(data[i + 1], Mul(Sub(P[i + 1], P[i]), drhodP))
              IN  SweepFromSignSlip([data EXCEPT ![i] = new], P, i - 1)
    ELSE SweepFromSignSlip(data, P, i - 1)

DensitySweepSignSlip(data, P) == SweepFromSignSlip(data, P, Len(data) - 1)

(* The sweep with its test inverted: it rewrites a layer whose outward
   neighbour is less dense (< for >). *)
RECURSIVE SweepFromInverted(_, _, _)
SweepFromInverted(data, P, i) ==
    IF i < 1 THEN [ok |-> TRUE, data |-> data]
    ELSE IF Lt(data[i + 1], data[i])
    THEN IF i + 5 > Len(data) THEN [ok |-> FALSE, data |-> data]
         ELSE LET drhodP == Div(Sub(data[i + 1], data[i + 5]), Sub(P[i + 1], P[i + 5]))
                  new == Add(data[i + 1], Mul(Sub(P[i], P[i + 1]), drhodP))
              IN  SweepFromInverted([data EXCEPT ![i] = new], P, i - 1)
    ELSE SweepFromInverted(data, P, i - 1)

DensitySweepInverted(data, P) == SweepFromInverted(data, P, Len(data) - 1)

DensitySweep(data, P) == SweepFrom(data, P, Len(data) - 1)

-----------------------------------------------------------------------------
(* get_core_rho *)

MolarWeightCore(wt) ==
    LET mol_total == Div(Add(Add(Add(Div(wt.Fe, mFe), Div(wt.O, mO)), Div(wt.S, mS)),
                             Div(wt.Si, mSi)), R(100))
        mol_frac_Fe == Div(Div(Div(wt.Fe, mFe), R(100)), mol_total)
        mol_frac_Si == Div(Div(Div(wt.Si, mSi), R(100)), mol_total)
        mol_frac_S == Div(Div(Div(wt.S, mS), R(100)), mol_total)
        mol_frac_O == Div(Div(Div(wt.O, mO), R(100)), mol_total)
    IN  Add(Add(Add(Mul(mol_frac_Fe, mFe), Mul(mol_frac_Si, mSi)), Mul(mol_frac_O, mO)),
            Mul(mol_frac_S, mS))

CoreScale(wt) == Div(MolarWeightCore(wt), mFe)

(* minerals.other.liquid_iron().evaluate(['density'], P, T) and
   minerals.other.Ice_VII().evaluate(['density'], P, T): closed-form equations of
   state, here tables over (pressure in Pa, temperature). *)
LiquidIronDensity(min, Ppa, T) == Interp(min.liquid_iron.density, Ppa, T)

IceVIIDensity(min, Ppa, T) == Interp(min.Ice_VII.density, Ppa, T)

(* The fallback called with the pressure still in bar. *)
CoreFallbackInBar(min, core_rho, Pressure, Temperature) ==
    [k \in 1..Len(core_rho) |->
        IF IsNaN(core_rho[k])
        THEN LiquidIronDensity(min, Pressure[k], Temperature[k])
        ELSE core_rho[k]]

CoreFallback(min, core_rho, Pressure, Temperature) ==
    [k \in 1..Len(core_rho) |->
        IF IsNaN(core_rho[k])
        THEN LiquidIronDensity(min, Mul(Pressure[k], R(ToPa)), Temperature[k])
        ELSE core_rho[k]]

GetCoreRho(grid, min, wt, Pressure, Temperature) ==
    LET core_rho == InterpAll(grid.density, Pressure, Temperature)
        filled == CoreFallback(min, core_rho, Pressure, Temperature)
    IN  [k \in 1..Len(filled) |-> Mul(CoreScale(wt), filled[k])]

-----------------------------------------------------------------------------
(* get_water_rho *)

IceFallback(min, P, T) ==
    LET den_noT == IceVIIDensity(min, Mul(P, R(ToPa)), R(IceRefT))
        corr == Exp(Mul(Sub(T, R(IceRefT)), IceThermal))
    IN  Div(den_noT, corr)

(* The range test with strict comparisons: 1 bar and 300 K are outside. *)
WaterInRangeStrict(P, T) == Gt(P, R(WaterMinP)) /\ Gt(T, R(WaterMinT))

(* Line 221: the ice fallback applies at P >= 1 bar and T >= 300 K. *)
WaterInRange(P, T) == Ge(P, R(WaterMinP)) /\ Ge(T, R(WaterMinT))

WaterFill(min, Water_density, Pressure, Temperature) ==
    [k \in 1..Len(Water_density) |->
        IF IsNaN(Water_density[k]) /\ WaterInRange(Pressure[k], Temperature[k])
        THEN IceFallback(min, Pressure[k], Temperature[k])
        ELSE Water_density[k]]

WaterSweep(data, P) == DensitySweep(data, P)

GetWaterRho(Pressure, Temperature, gr, min) ==
    IF ~gr[4].present THEN Raise("TypeError")
    ELSE
    LET Water_density == InterpAll(gr[4].density, Pressure, Temperature)
        fatal == {k \in 1..Len(Water_density) :
                     IsNaN(Water_density[k]) /\ ~WaterInRange(Pressure[k], Temperature[k])}
        filled == WaterFill(min, Water_density, Pressure, Temperature)
        swept == WaterSweep(filled, Pressure)
    IN  IF fatal # {}
        THEN Exit("outside of water grid", <<Pressure[MinOf(fatal)], Temperature[MinOf(fatal)]>>)
        ELSE IF ~swept.ok THEN Raise("IndexError")
        ELSE Ok(swept.data)

-----------------------------------------------------------------------------
(* get_rho *)

(* The classification with a strict comparison: a layer at exactly 1250000 bar
   goes to the upper-mantle list. *)
IsLMStrict(P, nc, j) == Gt(P[nc + j], R(MantleSplit))

(* Lines 58-64: mantle layer j (1..nm) goes to the lower-mantle list when its
   pressure is >= 1250000 bar and to the upper-mantle list otherwise. *)
IsLM(P, nc, j) == Ge(P[nc + j], R(MantleSplit))

MantleIdxLM(P, nc, nm) == IdxWhere([j \in 1..nm |-> IsLM(P, nc, j)], nm)

MantleIdxUM(P, nc, nm) == IdxWhere([j \in 1..nm |-> ~IsLM(P, nc, j)], nm)

(* Lines 84-89 and 108-113: the positions whose own-grid value is undefined. *)
ToSwitch(data) == IdxWhere([k \in 1..Len(data) |-> IsNaN(data[k])], Len(data))

(* The upper-mantle cascade without its exit: a point undefined in both grids
   stays undefined. *)
CascadeUMKeep(own, other, Ps, Ts) ==
    LET data == [k \in 1..Len(Ps) |-> Interp(own, Ps[k], Ts[k])]
    IN  Ok([k \in 1..Len(data) |->
               IF IsNaN(data[k]) THEN Interp(other, Ps[k], Ts[k]) ELSE data[k]])

(* Lines 91-102: upper-mantle points undefined in the upper-mantle grid are
   looked up in the lower-mantle grid; the first that is undefined there too
   ends the run, reporting that point. *)
CascadeUM(own, other, Ps, Ts) ==
    LET data == InterpAll(own, Ps, Ts)
        sw == ToSwitch(data)
        test == InterpAll(other, Pick(Ps, sw), Pick(Ts, sw))
        bad == {m \in 1..Len(sw) : IsNaN(test[m])}
    IN  IF bad # {}
        THEN Exit("Exceeds UM Mantle Grids", <<Ps[sw[MinOf(bad)]], Ts[sw[MinOf(bad)]]>>)
        ELSE Ok([k \in 1..Len(data) |->
                    IF IsNaN(data[k]) THEN Interp(other, Ps[k], Ts[k]) ELSE data[k]])

(* Lines 115-130: the same for the lower-mantle points; the inner print loop
   reuses the loop variable i, so the point reported is the last of to_switch. *)
CascadeLM(own, other, Ps, Ts) ==
    LET data == InterpAll(own, Ps, Ts)
        sw == ToSwitch(data)
        test == InterpAll(other, Pick(Ps, sw), Pick(Ts, sw))
        bad == {m \in 1..Len(sw) : IsNaN(test[m])}
    IN  IF bad # {}
        THEN Exit("Exceeds LM Mantle Grids", <<Ps[sw[Len(sw)]], Ts[sw[Len(sw)]]>>)
        ELSE Ok([k \in 1..Len(data) |->
                    IF IsNaN(data[k]) THEN Interp(other, Ps[k], Ts[k]) ELSE data[k]])

(* Line 132: np.append(LM_data, UM_data). *)
Stitch(LM_data, UM_data) == LM_data \o UM_data

MantleSweep(data, P) == DensitySweep(data, P)

GetRho(Pl, gr, min, wt, lay) ==
    LET Pressure_layers == Pl.pressure
        Temperature_layers == Pl.temperature
        nm == lay[1]
        nc == lay[2]
        nw == lay[3]
        n == Len(Pressure_layers)
        water == IF nw > 0
                 THEN GetWaterRho(Slice(Pressure_layers, nm + nc + 1, n),
                                  Slice(Temperature_layers, nm + nc + 1, n), gr, min)
                 ELSE Ok(<<>>)
        core_data == GetCoreRho(gr[3], min, wt, Slice(Pressure_layers, 1, nc),
                                Slice(Temperature_layers, 1, nc))
        iLM == MantleIdxLM(Pressure_layers, nc, nm)
        iUM == MantleIdxUM(Pressure_layers, nc, nm)
        P_mantle == Slice(Pressure_layers, nc + 1, nc + nm)
        T_mantle == Slice(Temperature_layers, nc + 1, nc + nm)
        UM == CascadeUM(gr[1].density, gr[2].density, Pick(P_mantle, iUM), Pick(T_mantle, iUM))
        LM == CascadeLM(gr[2].density, gr[1].density, Pick(P_mantle, iLM), Pick(T_mantle, iLM))
        swept == MantleSweep(Stitch(LM.val, UM.val), P_mantle)
    IN  IF water.kind # "ok" THEN water
        ELSE IF UM.kind # "ok" THEN UM
        ELSE IF LM.kind # "ok" THEN LM
        ELSE IF ~swept.ok THEN Raise("IndexError")
        ELSE IF nw > 0 THEN Ok(core_data \o swept.data \o water.val)
        ELSE Ok(core_data \o swept.data)

-----------------------------------------------------------------------------
(* Building blocks of the initial states. *)

NoTab == [x \in {} |-> NaN]

NoGrid == [present |-> FALSE, density |-> NoTab, cp |-> NoTab, alpha |-> NoTab]

DensityGrid(tab) == [present |-> TRUE, density |-> tab, cp |-> NoTab, alpha |-> NoTab]

NoMinerals ==
    [liquid_iron |-> [density |-> NoTab, thermal_expansivity |-> NoTab,
                      molar_heat_capacity_p |-> NoTab],
     Ice_VII |-> [density |-> NoTab]]

PureFe == [Fe |-> R(100), Si |-> R(0), O |-> R(0), S |-> R(0)]

FeS == [Fe |-> R(90), Si |-> R(0), O |-> R(0), S |-> R(10)]

(* The steps c of the integrals J[j] = (j-1)*c that stand for a quadrature
   the model does not compute. *)
QuadMax == 1

QuadSteps == {NaN} \cup {R(c) : c \in (-1)..QuadMax}

NoParams == [Mantle_potential_temp |-> R(1600), water_potential_temp |-> R(300)]

(* The arguments of a call besides the Planet State, the grids and the layer
   counts; quad and steps say how the quadratures resolve, n_iter counts the
   iterations of a run. *)
NoArgs ==
    [new_rho |-> <<>>, old_rho |-> <<>>, wt_frac_water |-> Zero,
     core_mass_frac |-> Zero, structural_parameters |-> NoParams,
     quad |-> "exact", steps |-> QuadSteps, n_iter |-> 0]

PlanetPT(P, T) ==
    [pressure |-> P, temperature |-> T, density |-> <<>>, gravity |-> <<>>,
     radius |-> <<>>, mass |-> <<>>]

Const(n, v) == [k \in 1..n |-> v]

Points(P, T) == {<<P[k], T[k]>> : k \in 1..Len(P)}

RECURSIVE SumFrom(_, _)
SumFrom(ds, i) == IF i > Len(ds) THEN 0 ELSE ds[i] + SumFrom(ds, i + 1)

(* A pressure profile of n layers given by its outermost value and the n-1
   steps between neighbours: P[i] = P[i+1] + ds[i], in bar. *)
ProfileFrom(top, ds) == [i \in 1..(Len(ds) + 1) |-> R(top + SumFrom(ds, i))]

-----------------------------------------------------------------------------
(* get_rho on bands long enough for the repair sweep to act. *)

SweepLen == 6

Deltas == {-1, 0, 1, 2}

DenVals == {R(1), R(2)}

CoreP == R(2000000)

CoreT == R(5000)

MantleT == R(1600)

WaterT == R(300)

MantleTop == MantleSplit - 3

WaterTop == MantleSplit - 30

CoreGrid == DensityGrid([x \in {<<CoreP, CoreT>>} |-> R(9)])

InitSweepMantle ==
    \E ds \in [1..(SweepLen - 1) -> Deltas] :
      LET P == ProfileFrom(MantleTop, ds)
          T == Const(SweepLen, MantleT)
      IN \E tab \in [Points(P, T) -> DenVals] :
           /\ layers = <<SweepLen, 1, 0>>
           /\ Planet = PlanetPT(<<CoreP>> \o P, <<CoreT>> \o T)
           /\ grids = <<DensityGrid(tab), DensityGrid(tab), CoreGrid, NoGrid>>

InitSweepWater ==
    \E ds \in [1..(SweepLen - 1) -> Deltas] :
      LET P == ProfileFrom(WaterTop, ds)
          T == Const(SweepLen, WaterT)
          tabM == [x \in {<<R(MantleTop), MantleT>>} |-> R(4)]
      IN \E tab \in [Points(P, T) -> DenVals] :
           /\ layers = <<1, 1, SweepLen>>
           /\ Planet = PlanetPT(<<CoreP, R(MantleTop)>> \o P, <<CoreT, MantleT>> \o T)
           /\ grids = <<DensityGrid(tabM), DensityGrid(tabM), CoreGrid, DensityGrid(tab)>>

InitSweep ==
    /\ InitSweepMantle \/ InitSweepWater
    /\ minerals = NoMinerals
    /\ Core_wt_per = PureFe
    /\ args = NoArgs
    /\ pc = "get_rho"
    /\ res = Ok(<<>>)

(* The call with the liquid-iron values assigned into the core grid's own
   table instead of into the array the lookup returned. *)
CallGetRhoInPlace ==
    /\ pc = "get_rho"
    /\ res' = GetRho(Planet, grids, minerals, Core_wt_per, layers)
    /\ grids' = [grids EXCEPT ![3].density =
                    [x \in DOMAIN @ |->
                        IF IsNaN(@[x])
                        THEN LiquidIronDensity(minerals, Mul(x[1], R(ToPa)), x[2])
                        ELSE @[x]]]
    /\ pc' = "returned"
    /\ UNCHANGED <<layers, Planet, minerals, Core_wt_per, args>>

(* One call of get_rho on the Planet State; the inputs are left as they were. *)
CallGetRho ==
    /\ pc = "get_rho"
    /\ res' = GetRho(Planet, grids, minerals, Core_wt_per, layers)
    /\ pc' = "returned"
    /\ UNCHANGED <<layers, Planet, grids, minerals, Core_wt_per, args>>

NextSweep == CallGetRho

SpecSweep == InitSweep /\ [][NextSweep]_vars

-----------------------------------------------------------------------------
(* get_rho on short bands, with grids and fallback equations of state that are
   undefined at some of the points. *)

ShortLen == 2

SplitPs == {R(MantleSplit - 1), R(MantleSplit), R(MantleSplit + 1)}

UMVals == {NaN, R(1), R(2)}

LMVals == {NaN, R(3), R(4)}

MantleGridOK == DensityGrid([x \in {<<R(MantleTop), MantleT>>} |-> R(4)])

(* Mantle layers on both sides of the 1250000 bar split; each mantle grid is
   defined at some of the three pressures and undefined at the others. *)
InitCascade ==
    \E nm \in 1..ShortLen :
      \E P \in [1..nm -> SplitPs], um \in [SplitPs \X {MantleT} -> UMVals],
         lm \in [SplitPs \X {MantleT} -> LMVals] :
           /\ layers = <<nm, 1, 0>>
           /\ Planet = PlanetPT(<<CoreP>> \o P, <<CoreT>> \o Const(nm, MantleT))
           /\ grids = <<DensityGrid(um), DensityGrid(lm), CoreGrid, NoGrid>>
           /\ minerals = NoMinerals
           /\ Core_wt_per = PureFe

CorePs == {R(1), R(2)}

CoreVals == {NaN, R(5), R(6)}

IronVals == {NaN, R(7), R(8)}

PaPoints(Ps, T) == {<<Mul(p, R(ToPa)), T>> : p \in Ps}

(* Core layers whose grid value may be undefined, with a liquid-iron equation
   of state, and a core with or without light elements. *)
InitCore ==
    \E nc \in 1..ShortLen :
      \E P \in [1..nc -> CorePs], cg \in [CorePs \X {CoreT} -> CoreVals],
         fe \in [PaPoints(CorePs, CoreT) -> IronVals], wt \in {PureFe, FeS} :
           /\ layers = <<1, nc, 0>>
           /\ Planet = PlanetPT(P \o <<R(MantleTop)>>, Const(nc, CoreT) \o <<MantleT>>)
           /\ grids = <<MantleGridOK, MantleGridOK, DensityGrid(cg), NoGrid>>
           /\ minerals = [NoMinerals EXCEPT !.liquid_iron.density = fe]
           /\ Core_wt_per = wt

WaterPs == {R(0), R(1), R(2)}

WaterTs == {R(299), R(300), R(301)}

WaterVals == {NaN, R(1), R(2)}

IceVals == {R(3), R(4)}

(* Water layers around the 1 bar and 300 K limits of the ice fallback. *)
InitWater ==
    \E nw \in 1..ShortLen :
      \E P \in [1..nw -> WaterPs], T \in [1..nw -> WaterTs] :
        \E wg \in [Points(P, T) -> WaterVals],
           ice \in [PaPoints({P[k] : k \in 1..nw}, R(IceRefT)) -> IceVals] :
           /\ layers = <<1, 1, nw>>
           /\ Planet = PlanetPT(<<CoreP, R(MantleTop)>> \o P, <<CoreT, MantleT>> \o T)
           /\ grids = <<MantleGridOK, MantleGridOK, CoreGrid, DensityGrid(wg)>>
           /\ minerals = [NoMinerals EXCEPT !.Ice_VII.density = ice]
           /\ Core_wt_per = PureFe

IcePs == {1, 2}

IceT == R(301)

(* A water band long enough for the repair sweep, with pressure strictly
   decreasing outward and one layer outside the water grid. *)
InitIce ==
    \E ds \in [1..(SweepLen - 1) -> IcePs], hole \in 1..SweepLen :
      LET P == ProfileFrom(1, ds)
          T == Const(SweepLen, IceT)
      IN \E wg \in [Points(P, T) \ {<<P[hole], T[hole]>>} -> DenVals] :
           /\ layers = <<1, 1, SweepLen>>
           /\ Planet = PlanetPT(<<CoreP, R(MantleTop)>> \o P, <<CoreT, MantleT>> \o T)
           /\ grids = <<MantleGridOK, MantleGridOK, CoreGrid, DensityGrid(wg)>>
           /\ minerals = [NoMinerals EXCEPT !.Ice_VII.density =
                             [x \in PaPoints({P[hole]}, R(IceRefT)) |-> R(2)]]
           /\ Core_wt_per = PureFe

InitRho ==
    /\ InitCascade \/ InitCore \/ InitWater \/ InitIce
    /\ args = NoArgs
    /\ pc = "get_rho"
    /\ res = Ok(<<>>)

NextRho == CallGetRho

SpecRho == InitRho /\ [][NextRho]_vars

-----------------------------------------------------------------------------
(* Bands of the layer sequence: core, mantle, water, centre outward. *)

CoreIdx(lay) == 1..lay[2]

MantleIdx(lay) == (lay[2] + 1)..(lay[2] + lay[1])

WaterIdx(lay) == (lay[2] + lay[1] + 1)..(lay[2] + lay[1] + lay[3])

(* The adjacent pairs i, i+1 that lie in the same band, mantle or water. *)
BandPairs(lay) ==
    {i \in MantleIdx(lay) : i + 1 \in MantleIdx(lay)} \cup
    {i \in WaterIdx(lay) : i + 1 \in WaterIdx(lay)}

NonIncreasingOn(d, I) == \A i \in I : Ge(d[i], d[i + 1])

StrictlyDecreasingOn(P, I) == \A i \in I : Gt(P[i], P[i + 1])

Returned == pc = "returned" /\ res.kind = "ok"

(* C1 as stated: whenever get_rho returns, density is non-increasing outward
   inside the mantle band and inside the water band, for every profile. *)
C1_AnyProfile == Returned => NonIncreasingOn(res.val, BandPairs(layers))

(* C1 amended: whenever get_rho returns for a profile whose pressure strictly
   decreases outward inside the mantle band and inside the water band, density
   is non-increasing outward inside each of the two bands. *)
C1_DensityMonotone ==
    (Returned /\ StrictlyDecreasingOn(Planet.pressure, BandPairs(layers)))
        => NonIncreasingOn(res.val, BandPairs(layers))

(* A repair happened in a mantle band whose pressure strictly decreases
   outward: get_rho returned a mantle density above the grid's value. *)
C1_Witness ==
    /\ Returned
    /\ layers[3] = 0
    /\ StrictlyDecreasingOn(Planet.pressure, BandPairs(layers))
    /\ \E i \in MantleIdx(layers) :
         Gt(res.val[i], Interp(grids[1].density, Planet.pressure[i], Planet.temperature[i]))

-----------------------------------------------------------------------------
(* C5: the analytic fallbacks. *)

(* Core layer k is undefined in the core grid and defined in the liquid-iron
   equation of state. *)
CoreFallsBack(k) ==
    /\ k \in CoreIdx(layers)
    /\ IsNaN(Interp(grids[3].density, Planet.pressure[k], Planet.temperature[k]))
    /\ ~IsNaN(LiquidIronDensity(minerals, Mul(Planet.pressure[k], R(ToPa)),
                                Planet.temperature[k]))

(* Water layer k is undefined in the water grid, inside the range of the ice
   fallback, and defined in the ice equation of state. *)
WaterFallsBack(k) ==
    /\ k \in WaterIdx(layers)
    /\ IsNaN(Interp(grids[4].density, Planet.pressure[k], Planet.temperature[k]))
    /\ WaterInRange(Planet.pressure[k], Planet.temperature[k])
    /\ ~IsNaN(IceVIIDensity(minerals, Mul(Planet.pressure[k], R(ToPa)), R(IceRefT)))

IronValue(k) ==
    LiquidIronDensity(minerals, Mul(Planet.pressure[k], R(ToPa)), Planet.temperature[k])

IceValue(k) == IceFallback(minerals, Planet.pressure[k], Planet.temperature[k])

(* C5 as stated: a layer that falls back is returned with exactly the value of
   the fallback equation of state, for any core composition and any profile. *)
C5_FallbackExact ==
    Returned =>
       /\ \A k \in CoreIdx(layers) : CoreFallsBack(k) => res.val[k] = IronValue(k)
       /\ \A k \in WaterIdx(layers) : WaterFallsBack(k) => res.val[k] = IceValue(k)

(* C5 amended: a core layer that falls back is returned with the liquid-iron
   density times molar_weight_core/mFe (the factor is 1 for a pure-iron core); a
   water layer that falls back is returned with the ice density (Ice VII at
   300 K divided by the thermal correction) unless the repair sweep replaced
   it, which happens only when its outward neighbour is returned denser. *)
C5_FallbackScaled ==
    Returned =>
       /\ \A k \in CoreIdx(layers) :
             CoreFallsBack(k) => res.val[k] = Mul(CoreScale(Core_wt_per), IronValue(k))
       /\ \A k \in WaterIdx(layers) :
             WaterFallsBack(k) =>
                \/ res.val[k] = IceValue(k)
                \/ k + 1 \in WaterIdx(layers) /\ Gt(res.val[k + 1], IceValue(k))

(* get_rho returned a core layer taken from the liquid-iron fallback for a core
   with light elements. *)
C5_Witness ==
    /\ Returned
    /\ Core_wt_per = FeS
    /\ \E k \in CoreIdx(layers) : CoreFallsBack(k)

-----------------------------------------------------------------------------
(* check_convergence *)

(* The scan with the innermost layer included in delta. *)
ConvDeltaAll(new_rho, old_rho) ==
    [j \in 1..Len(new_rho) |-> Sub(One, Div(old_rho[j], new_rho[j]))]

(* The scan treating an undefined delta as unconverged. *)
RECURSIVE ConvScanStrict(_, _)
ConvScanStrict(delta, i) ==
    IF i > Len(delta) THEN TRUE
    ELSE IF ~Lt(Abs(delta[i]), Tolerance) THEN FALSE
    ELSE ConvScanStrict(delta, i + 1)

(* The scan with its comparison the wrong way round. *)
RECURSIVE ConvScanInverted(_, _)
ConvScanInverted(delta, i) ==
    IF i > Len(delta) THEN TRUE
    ELSE IF Lt(Abs(delta[i]), Tolerance) THEN FALSE
    ELSE ConvScanInverted(delta, i + 1)

(* delta[i] = 1 - old_rho[i]/new_rho[i] for the program's i = 1..len-1. *)
ConvDelta(new_rho, old_rho) ==
    [j \in 1..(Len(new_rho) - 1) |-> Sub(One, Div(old_rho[j + 1], new_rho[j + 1]))]

(* The scan with its early return: FALSE at the first delta at or above the
   tolerance, TRUE when the scan runs out. *)
RECURSIVE ConvScan(_, _)
ConvScan(delta, i) ==
    IF i > Len(delta) THEN TRUE
    ELSE IF Ge(Abs(delta[i]), Tolerance) THEN FALSE
    ELSE ConvScan(delta, i + 1)

CheckConvergence(new_rho, old_rho) ==
    IF Len(old_rho) < Len(new_rho) THEN Raise("IndexError")
    ELSE OkFlag(ConvScan(ConvDelta(new_rho, old_rho), 1), new_rho)

CallCheckConvergence ==
    /\ pc = "check_convergence"
    /\ res' = CheckConvergence(args.new_rho, args.old_rho)
    /\ pc' = "compared"
    /\ UNCHANGED <<layers, Planet, grids, minerals, Core_wt_per, args>>

(* Inputs of check_convergence: two profiles of up to ConvLen layers. *)
ConvLen == 3

RhoVals == {NaN, R(0), R(1000), R(1001)}

Profiles(n) == [1..n -> RhoVals]

InitConv ==
    /\ layers = <<1, 1, 0>>
    /\ Planet = PlanetPT(<<>>, <<>>)
    /\ grids = <<NoGrid, NoGrid, NoGrid, NoGrid>>
    /\ minerals = NoMinerals
    /\ Core_wt_per = PureFe
    /\ \E n \in 1..ConvLen : \E m \in {n - 1, n} :
         \E new \in Profiles(n) : \E old \in Profiles(m) :
            args = [NoArgs EXCEPT !.new_rho = new, !.old_rho = old]
    /\ pc = "check_convergence"
    /\ res = Ok(<<>>)

NextConv == CallCheckConvergence

SpecConv == InitConv /\ [][NextConv]_vars

Compared == pc = "compared" /\ res.kind = "ok"

(* Layer i (1-based, i >= 2) differs by at least the tolerance. *)
Differs(i) ==
    Ge(Abs(Sub(One, Div(args.old_rho[i], args.new_rho[i]))), Tolerance)

(* C7: check_convergence reports not-converged exactly when some layer other
   than the innermost has |1 - old/new| >= 1e-3, and hands back new_rho
   unchanged; the innermost layer never influences the verdict. *)
C7_ConvergenceRule ==
    Compared =>
       /\ res.flag = ~(\E i \in 2..Len(args.new_rho) : Differs(i))
       /\ res.val = args.new_rho

(* A comparison decided exactly at the tolerance, with the innermost layers
   far apart. *)
C7_Witness ==
    /\ Compared
    /\ ~res.flag
    /\ Len(args.new_rho) >= 2
    /\ args.new_rho[1] # args.old_rho[1]
    /\ \E i \in 2..Len(args.new_rho) :
         Abs(Sub(One, Div(args.old_rho[i], args.new_rho[i]))) = Tolerance

(* C8 as stated: a verdict of converged means every layer but the innermost
   has a defined new density within the tolerance of the old one. *)
C8_ConvergedMeansDefined ==
    (Compared /\ res.flag) =>
        \A i \in 2..Len(args.new_rho) :
            /\ ~IsNaN(args.new_rho[i])
            /\ Lt(Abs(Sub(One, Div(args.old_rho[i], args.new_rho[i]))), Tolerance)

(* C9: a profile compared with itself is reported converged. *)
C9_SelfConverged ==
    (Compared /\ args.new_rho = args.old_rho) => res.flag

(* A profile of several layers, one of them zero, compared with itself. *)
C9_Witness ==
    /\ Compared
    /\ args.new_rho = args.old_rho
    /\ Len(args.new_rho) >= 2
    /\ \E i \in 2..Len(args.new_rho) : args.new_rho[i] = Zero
    /\ res.flag

-----------------------------------------------------------------------------
(* get_radius.  With vol[i] = radius[i]^3 / val, val = 1/(4 pi/3), the
   recurrence of lines 500-515 is vol[i] = share / rho + vol[i-1], which the
   model computes exactly; the radius returned is cbrt(val * vol[i]).  np.cbrt
   and np.pi have rational stand-ins: Cbrt is exact at the cubes of the
   integers, odd and strictly increasing; Pi is 22/7. *)

RECURSIVE CubeFloor(_, _)
CubeFloor(x, n) ==
    IF Gt(R((n + 1) * (n + 1) * (n + 1)), x) THEN n ELSE CubeFloor(x, n + 1)

CbrtPos(x) ==
    LET n == CubeFloor(x, 0)
        lo == n * n * n
        hi == (n + 1) * (n + 1) * (n + 1)
    IN  Add(R(n), Div(Sub(x, R(lo)), R(hi - lo)))

Cbrt(x) ==
    IF IsNaN(x) \/ x[2] = 0 THEN x
    ELSE IF x[1] < 0 THEN Neg(CbrtPos(Neg(x)))
    ELSE CbrtPos(x)

Pi == Q(22, 7)

RadiusVal == Div(One, Div(Mul(R(4), Pi), R(3)))

(* The mass share of one layer of each band (lines 498, 501, 512). *)
MassLayers(Mass, wt_frac_water, core_mass_frac, lay) ==
    [core   |-> Div(Mul(Mul(Mass, Sub(One, wt_frac_water)), core_mass_frac), R(lay[2])),
     mantle |-> Div(Mul(Mul(Mass, Sub(One, wt_frac_water)), Sub(One, core_mass_frac)),
                    R(lay[1])),
     water  |-> Div(Mul(Mass, wt_frac_water), R(lay[3]))]

(* The share that the loops turn into the increment of layer i; the core loop
   starts at the program's index 1, so the innermost layer receives none. *)
ShareOf(m, lay, i) ==
    IF i <= lay[2] THEN (IF i = 1 THEN Zero ELSE m.core)
    ELSE IF i <= lay[2] + lay[1] THEN m.mantle
    ELSE m.water

(* The shell density with the difference of the two layers for their sum. *)
ShellDensityDiff(density, lay, i) ==
    IF i = lay[2] + 1 \/ i = lay[2] + lay[1] + 1 THEN density[i]
    ELSE Div(Sub(density[i], density[i - 1]), R(2))

(* The density the share is divided by: the mean with the layer below, or the
   layer's own density for the first layer of the mantle and of the water. *)
ShellDensity(density, lay, i) ==
    IF i = lay[2] + 1 \/ i = lay[2] + lay[1] + 1 THEN density[i]
    ELSE Div(Add(density[i], density[i - 1]), R(2))

RECURSIVE RadiusFrom(_, _, _, _, _)
RadiusFrom(vol, density, m, lay, i) ==
    IF i > Len(vol) THEN vol
    ELSE IF i <= lay[2] /\ i = 1 THEN RadiusFrom(vol, density, m, lay, i + 1)
    ELSE LET below == IF i = 1 THEN vol[Len(vol)] ELSE vol[i - 1]
             new == Add(Div(ShareOf(m, lay, i), ShellDensity(density, lay, i)), below)
         IN  RadiusFrom([vol EXCEPT ![i] = new], density, m, lay, i + 1)

GetRadius(Pl, wt_frac_water, core_mass_frac, lay) ==
    IF Len(Pl.mass) = 0 \/ Len(Pl.density) < Sum3(lay) THEN Raise("IndexError")
    ELSE LET Mass == Pl.mass[Len(Pl.mass)]
             m == MassLayers(Mass, wt_frac_water, core_mass_frac, lay)
             vol == RadiusFrom(Const(Sum3(lay), Zero), Pl.density, m, lay, 1)
         IN  Ok([i \in 1..Len(vol) |-> Cbrt(Mul(RadiusVal, vol[i]))])

CallGetRadius ==
    /\ pc = "get_radius"
    /\ res' = GetRadius(Planet, args.wt_frac_water, args.core_mass_frac, layers)
    /\ pc' = "returned"
    /\ UNCHANGED <<layers, Planet, grids, minerals, Core_wt_per, args>>

(* Inputs of get_radius: every band of up to MaxBand layers, a core of at least
   one layer, densities and mass fractions from small sets. *)
MaxBand == 2

RadiusRho == {R(1), R(2)}

RadiusMass == {R(12), R(24)}

WaterFracs == {Zero, Q(1, 2), One}

CoreFracs == {Zero, Q(1, 3), Q(1, 2), One}

InitRadius ==
    /\ \E nm \in 1..MaxBand : \E nc \in 1..MaxBand : \E nw \in 0..MaxBand :
         /\ layers = <<nm, nc, nw>>
         /\ \E d \in [1..(nm + nc + nw) -> RadiusRho] : \E M \in RadiusMass :
              Planet = [PlanetPT(<<>>, <<>>) EXCEPT !.density = d, !.mass = <<M>>]
    /\ grids = <<NoGrid, NoGrid, NoGrid, NoGrid>>
    /\ minerals = NoMinerals
    /\ Core_wt_per = PureFe
    /\ \E w \in WaterFracs : \E c \in CoreFracs :
         args = [NoArgs EXCEPT !.wt_frac_water = w, !.core_mass_frac = c]
    /\ pc = "get_radius"
    /\ res = Ok(<<>>)

NextRadius == CallGetRadius

SpecRadius == InitRadius /\ [][NextRadius]_vars

RECURSIVE SumSeq(_, _)
SumSeq(s, i) == IF i > Len(s) THEN Zero ELSE Add(s[i], SumSeq(s, i + 1))

(* The mass get_radius has placed: the shares behind the increments of vol. *)
MassPlaced ==
    LET m == MassLayers(Planet.mass[Len(Planet.mass)], args.wt_frac_water,
                        args.core_mass_frac, layers)
    IN  SumSeq([i \in 1..Sum3(layers) |-> ShareOf(m, layers, i)], 1)

(* C3 as stated: the shares get_radius turns into radius increments sum to the
   total mass M. *)
C3_MassConserved ==
    (pc = "returned" /\ res.kind = "ok" /\ Len(Planet.mass) > 0
        /\ (layers[3] > 0 \/ args.wt_frac_water = Zero))
       => MassPlaced = Planet.mass[Len(Planet.mass)]

-----------------------------------------------------------------------------
(* scipy's InterpolatedUnivariateSpline and odeint.

   spline(x, y, k) needs as many y as x, more than k points and strictly
   increasing x; otherwise its constructor raises.  odeint(f, y0, x) returns
   y0 at x[0] and y0 plus the integral of f from x[0] to x[j] at x[j].  The
   integrals J[j] (J[1] = 0) of the fitted integrand are an input of the
   function models below: the actions supply them, exactly where the fit is a
   single polynomial and from a small set of values elsewhere. *)

(* s[lo:hi] of the program, lo and hi 0-based and clipped to the array. *)
PySlice(s, lo, hi) == Slice(s, lo + 1, IF hi < Len(s) THEN hi ELSE Len(s))

StrictlyIncreasing(x) == \A j \in 1..(Len(x) - 1) : Lt(x[j], x[j + 1])

SplineOK(x, y, k) == Len(x) = Len(y) /\ Len(x) > k /\ StrictlyIncreasing(x)

(* The solution with the integral subtracted. *)
OdeintBackward(y0, J) == [j \in 1..Len(J) |-> IF j = 1 THEN y0 ELSE Sub(y0, J[j])]

(* The integral alone: the starting value is not added. *)
OdeintNoStart(y0, J) == [j \in 1..Len(J) |-> J[j]]

(* The solution without its starting point: one value per step. *)
OdeintSteps(y0, J) == [j \in 1..(Len(J) - 1) |-> Add(y0, J[j + 1])]

Odeint(y0, J) == [j \in 1..Len(J) |-> IF j = 1 THEN y0 ELSE Add(y0, J[j])]

Last(s) == s[Len(s)]

-----------------------------------------------------------------------------
(* get_gravity.  J.core, J.rock, J.water are the integrals of
   4 pi G rho(x) x^2 over the band's radii. *)

(* gravity_layers[1:] / radii[1:] / radii[1:] on every entry, with no
   assignment to gravity_layers[0]. *)
GravityScaleAll(g, radii) ==
    [i \in 1..Len(g) |-> Div(Div(g[i], radii[i]), radii[i])]

GravityScale(g, radii) ==
    [i \in 1..Len(g) |-> IF i = 1 THEN Zero ELSE Div(Div(g[i], radii[i]), radii[i])]

GetGravity(Pl, lay, J) ==
    LET radii == Pl.radius
        density == Pl.density
        nm == lay[1]
        nc == lay[2]
        nw == lay[3]
        k == IF nw > 0 THEN 3 ELSE 4
        radii_core == PySlice(radii, 0, nc)
        density_core == PySlice(density, 0, nc)
        radii_rock == PySlice(radii, nc, nc + nm)
        density_rock == PySlice(density, nc, nc + nm)
        radii_water == PySlice(radii, nc + nm, Len(radii))
        density_water == PySlice(density, nc + nm, Len(density))
        core == Odeint(Zero, J.core)
        rock == Odeint(Last(core), J.rock)
        water == Odeint(Last(rock), J.water)
        all == IF nw > 0 THEN core \o rock \o water ELSE core \o rock
    IN  IF ~SplineOK(radii_core, density_core, k) THEN Raise("spline")
        ELSE IF ~SplineOK(radii_rock, density_rock, k) THEN Raise("spline")
        ELSE IF nw > 0 /\ ~SplineOK(radii_water, density_water, k) THEN Raise("spline")
        ELSE IF Len(all) # Len(radii) THEN Raise("ValueError")
        ELSE Ok(GravityScale(all, radii))

(* Integrals supplied where the fit is not computed: ramps J[j] = (j-1)*c. *)
QuadRamp(n, c) == [j \in 1..n |-> IF j = 1 THEN Zero ELSE Mul(R(j - 1), c)]

BandLens(lay, total) ==
    [core  |-> IF lay[2] < total THEN lay[2] ELSE total,
     rock  |-> IF lay[2] + lay[1] <= total THEN lay[1]
               ELSE IF lay[2] < total THEN total - lay[2] ELSE 0,
     water |-> IF lay[2] + lay[1] < total THEN total - lay[2] - lay[1] ELSE 0]

QuadRamps(lay, total, steps) ==
    LET n == BandLens(lay, total)
    IN  {[core |-> QuadRamp(n.core, c), rock |-> QuadRamp(n.rock, r),
          water |-> QuadRamp(n.water, w)] :
            c \in steps, r \in steps,
            w \in IF lay[3] > 0 THEN steps ELSE {Zero}}

CallGetGravity ==
    /\ pc = "get_gravity"
    /\ \E J \in QuadRamps(layers, Len(Planet.radius), args.steps) :
         res' = GetGravity(Planet, layers, J)
    /\ pc' = "returned"
    /\ UNCHANGED <<layers, Planet, grids, minerals, Core_wt_per, args>>

(* Inputs of get_gravity: bands at and just below the size the splines need,
   radii one apart from a centre at 0 or 1, or with the centre repeated. *)
BandSizes == {4, 5}

WaterSizes == {0, 4}

Ramp(r0, n) == [i \in 1..n |-> R(r0 + i - 1)]

RadiiOf(n) ==
    {Ramp(r0, n) : r0 \in {0, 1}} \cup {[Ramp(0, n) EXCEPT ![2] = Zero]}

InitGravity ==
    /\ \E nm \in BandSizes : \E nc \in BandSizes : \E nw \in WaterSizes :
         /\ layers = <<nm, nc, nw>>
         /\ \E r \in RadiiOf(nm + nc + nw) : \E d \in {R(1), R(2), NaN} :
              Planet = [PlanetPT(<<>>, <<>>) EXCEPT
                           !.radius = r, !.density = Const(nm + nc + nw, d)]
    /\ grids = <<NoGrid, NoGrid, NoGrid, NoGrid>>
    /\ minerals = NoMinerals
    /\ Core_wt_per = PureFe
    /\ args = NoArgs
    /\ pc = "get_gravity"
    /\ res = Ok(<<>>)

NextGravity == CallGetGravity

SpecGravity == InitGravity /\ [][NextGravity]_vars

(* C2: the first entry of the gravity profile get_gravity returns is 0. *)
C2_CentreGravityZero == Returned => res.val[1] = Zero

(* get_gravity returned a profile for a planet whose centre is at radius 0 and
   whose second layer carries a gravity other than 0. *)
C2_Witness ==
    /\ Returned
    /\ Planet.radius[1] = Zero
    /\ Len(res.val) = Sum3(layers)
    /\ res.val[2] # Zero

-----------------------------------------------------------------------------
(* The fit and the quadrature where they are exact.  A spline of degree k
   through k+1 points has no interior knot: it is the polynomial of degree k
   through the points.  Polynomials are sequences of coefficients, lowest
   degree first, in the variable t = x - x[1]. *)

PolyAdd(p, q) ==
    [i \in 1..(IF Len(p) > Len(q) THEN Len(p) ELSE Len(q)) |->
        Add(IF i <= Len(p) THEN p[i] ELSE Zero, IF i <= Len(q) THEN q[i] ELSE Zero)]

PolyScale(p, c) == [i \in 1..Len(p) |-> Mul(p[i], c)]

(* p(t) * (t - a) *)
PolyTimesLin(p, a) ==
    [i \in 1..(Len(p) + 1) |->
        Sub(IF i > 1 THEN p[i - 1] ELSE Zero,
            IF i <= Len(p) THEN Mul(a, p[i]) ELSE Zero)]

RECURSIVE PolyMulFrom(_, _, _)
PolyMulFrom(p, q, i) ==
    IF i > Len(p) THEN <<>>
    ELSE PolyAdd(PolyScale(q, p[i]), <<Zero>> \o PolyMulFrom(p, q, i + 1))

PolyMul(p, q) == PolyMulFrom(p, q, 1)

(* The antiderivative that vanishes at t = 0. *)
PolyInt(p) == [i \in 1..(Len(p) + 1) |-> IF i = 1 THEN Zero ELSE Div(p[i - 1], R(i - 1))]

RECURSIVE PolyEvalFrom(_, _, _)
PolyEvalFrom(p, t, i) ==
    IF i > Len(p) THEN Zero ELSE Add(p[i], Mul(t, PolyEvalFrom(p, t, i + 1)))

PolyEval(p, t) == PolyEvalFrom(p, t, 1)

(* The a-th Lagrange basis polynomial on the nodes t, built node by node. *)
RECURSIVE LagrangeBasis(_, _, _)
LagrangeBasis(t, a, b) ==
    IF b > Len(t) THEN <<One>>
    ELSE IF b = a THEN LagrangeBasis(t, a, b + 1)
    ELSE PolyScale(PolyTimesLin(LagrangeBasis(t, a, b + 1), t[b]),
                   Div(One, Sub(t[a], t[b])))

RECURSIVE PolyFitFrom(_, _, _)
PolyFitFrom(t, y, a) ==
    IF a > Len(t) THEN <<Zero>>
    ELSE PolyAdd(PolyScale(LagrangeBasis(t, a, 1), y[a]), PolyFitFrom(t, y, a + 1))

PolyFit(t, y) == PolyFitFrom(t, y, 1)

(* The integrals of the product of the fits of f and g from x[1] to x[j]. *)
ExactQuad(x, f, g) ==
    LET t == [j \in 1..Len(x) |-> Sub(x[j], x[1])]
        F == PolyInt(PolyMul(PolyFit(t, f), PolyFit(t, g)))
    IN  [j \in 1..Len(x) |-> IF j = 1 THEN Zero ELSE PolyEval(F, t[j])]

-----------------------------------------------------------------------------
(* get_pressure.  J.water, J.rock, J.core are the integrals of
   gfunc(x) * rhofunc(x) over the band's depths, from the band's top down. *)

SurfacePressure == R(100000)

(* The spline degrees of lines 425-460. *)
PressureDegree(lay) ==
    IF lay[3] > 0 THEN [water |-> 4, rock |-> 3, core |-> 5]
    ELSE [water |-> 4, rock |-> 4, core |-> 4]

(* The three bands of a profile, each from its top down, as the splines of
   get_pressure receive them. *)
BandsDown(v, lay) ==
    [core  |-> Reverse(PySlice(v, 0, lay[2])),
     rock  |-> Reverse(PySlice(v, lay[2], lay[2] + lay[1])),
     water |-> Reverse(PySlice(v, lay[2] + lay[1], Len(v)))]

Depths(radii) == [i \in 1..Len(radii) |-> Sub(Last(radii), radii[i])]

GetPressure(Pl, lay, J) ==
    IF Len(Pl.radius) = 0 THEN Raise("IndexError")
    ELSE
    LET x == BandsDown(Depths(Pl.radius), lay)
        g == BandsDown(Pl.gravity, lay)
        rho == BandsDown(Pl.density, lay)
        k == PressureDegree(lay)
        water == Odeint(SurfacePressure, J.water)
        rock == Odeint(IF lay[3] > 0 THEN Last(water) ELSE SurfacePressure, J.rock)
        core == Odeint(Last(rock), J.core)
        pascals == IF lay[3] > 0 THEN water \o rock \o core ELSE rock \o core
    IN  IF lay[3] > 0 /\ ~(SplineOK(x.water, rho.water, k.water)
                           /\ SplineOK(x.water, g.water, k.water))
        THEN Raise("spline")
        ELSE IF ~(SplineOK(x.rock, rho.rock, k.rock) /\ SplineOK(x.rock, g.rock, k.rock))
        THEN Raise("spline")
        ELSE IF ~(SplineOK(x.core, rho.core, k.core) /\ SplineOK(x.core, g.core, k.core))
        THEN Raise("spline")
        ELSE Ok(Reverse([i \in 1..Len(pascals) |-> Mul(pascals[i], ToBar)]))

(* The integrals of one band: exact when the fit is a single polynomial. *)
BandQuads(x, f, g, k, quad, steps) ==
    IF quad = "exact" /\ SplineOK(x, f, k) /\ SplineOK(x, g, k) /\ Len(x) = k + 1
    THEN {ExactQuad(x, f, g)}
    ELSE {QuadRamp(Len(x), c) : c \in steps}

PressureQuads(Pl, lay, quad, steps) ==
    LET x == BandsDown(Depths(Pl.radius), lay)
        g == BandsDown(Pl.gravity, lay)
        rho == BandsDown(Pl.density, lay)
        k == PressureDegree(lay)
    IN  {[core |-> c, rock |-> r, water |-> w] :
            c \in BandQuads(x.core, g.core, rho.core, k.core, quad, steps),
            r \in BandQuads(x.rock, g.rock, rho.rock, k.rock, quad, steps),
            w \in IF lay[3] > 0
                  THEN BandQuads(x.water, g.water, rho.water, k.water, quad, steps)
                  ELSE {<<>>}}

CallGetPressure ==
    /\ pc = "get_pressure"
    /\ \E J \in PressureQuads(Planet, layers, args.quad, args.steps) :
         res' = GetPressure(Planet, layers, J)
    /\ pc' = "returned"
    /\ UNCHANGED <<layers, Planet, grids, minerals, Core_wt_per, args>>

(* Inputs of get_pressure: bands of exactly the size of one polynomial piece
   and one layer short of it; radii one apart from the centre; in each band a
   density that is constant or linear and a gravity that is constant, linear or
   zero between two end layers of 1. *)
SlopeMax == 1

Line(n, a, sl) == [i \in 1..n |-> R(IF sl >= 0 THEN a + sl * (i - 1) ELSE a - sl * (n - i))]

Dip(n) == [i \in 1..n |-> IF i = 1 \/ i = n THEN One ELSE Zero]

DensityShapes(n) == {Line(n, 1, sl) : sl \in (-SlopeMax)..SlopeMax}

GravityShapes(n) == {Line(n, a, sl) : a \in {0, 1}, sl \in {0, SlopeMax}} \cup {Dip(n)}

PressureLayers == {<<5, 5, 0>>, <<5, 4, 0>>, <<4, 5, 0>>, <<4, 6, 5>>, <<4, 6, 4>>}

InitPressure ==
    /\ layers \in PressureLayers
    /\ \E dm \in DensityShapes(layers[1]) : \E dc \in DensityShapes(layers[2]) :
       \E gm \in GravityShapes(layers[1]) : \E gc \in GravityShapes(layers[2]) :
       \E w \in {IF layers[3] > 0 THEN 1 ELSE 0} :
         Planet = [PlanetPT(<<>>, <<>>) EXCEPT
                      !.radius = Ramp(0, Sum3(layers)),
                      !.density = dc \o dm \o Const(layers[3] * w, One),
                      !.gravity = gc \o gm \o Const(layers[3] * w, One)]
    /\ grids = <<NoGrid, NoGrid, NoGrid, NoGrid>>
    /\ minerals = NoMinerals
    /\ Core_wt_per = PureFe
    /\ args = NoArgs
    /\ pc = "get_pressure"
    /\ res = Ok(<<>>)

NextPressure == CallGetPressure

SpecPressure == InitPressure /\ [][NextPressure]_vars

PositiveDensity == \A i \in 1..Len(Planet.density) : Gt(Planet.density[i], Zero)

NonNegativeGravity == \A i \in 1..Len(Planet.gravity) : Ge(Planet.gravity[i], Zero)

(* v is linear in the radius, hence in the depth, across the layers I. *)
LinearOn(v, I) ==
    \A i \in I : (i + 1 \in I /\ i + 2 \in I) =>
        Mul(Sub(v[i + 1], v[i]), Sub(Planet.radius[i + 2], Planet.radius[i + 1]))
            = Mul(Sub(v[i + 2], v[i + 1]), Sub(Planet.radius[i + 1], Planet.radius[i]))

LinearInBands(v) ==
    /\ LinearOn(v, CoreIdx(layers))
    /\ LinearOn(v, MantleIdx(layers))
    /\ LinearOn(v, WaterIdx(layers))

PressureNonDecreasingInward ==
    \A i \in 1..(Len(res.val) - 1) : Ge(res.val[i], res.val[i + 1])

(* C4 as stated: for any profile of positive density and non-negative gravity
   the returned pressure is non-decreasing from the surface to the centre. *)
C4_AnyProfile ==
    (Returned /\ PositiveDensity /\ NonNegativeGravity) => PressureNonDecreasingInward

(* C4 amended: for any profile of positive density and non-negative gravity
   that both vary linearly with depth inside each band, the returned pressure
   is non-decreasing from the surface to the centre. *)
C4_PressureMonotone ==
    (Returned /\ PositiveDensity /\ NonNegativeGravity
        /\ LinearInBands(Planet.density) /\ LinearInBands(Planet.gravity))
       => PressureNonDecreasingInward

(* get_pressure returned a profile for a planet with water whose density and
   gravity are linear and not constant in the core, and whose central pressure
   exceeds the pressure one layer out. *)
C4_Witness ==
    /\ Returned
    /\ layers[3] > 0
    /\ PositiveDensity /\ NonNegativeGravity
    /\ LinearInBands(Planet.density) /\ LinearInBands(Planet.gravity)
    /\ Planet.density[1] # Planet.density[2]
    /\ Planet.gravity[1] # Planet.gravity[2]
    /\ Gt(res.val[1], res.val[2])

-----------------------------------------------------------------------------
(* get_mantle_values_T *)

MantleCeiling == 25000000

(* Lines 557-574 and 598-614: upper-mantle points undefined in the upper-mantle
   grid take the lower-mantle value; the first undefined there too ends the
   run. *)
CascadeUM_T(own, other, Ps, Ts, why) ==
    LET data == InterpAll(own, Ps, Ts)
        sw == ToSwitch(data)
        test == InterpAll(other, Pick(Ps, sw), Pick(Ts, sw))
        bad == {m \in 1..Len(sw) : IsNaN(test[m])}
    IN  IF bad # {}
        THEN Exit(why, <<Ps[sw[MinOf(bad)]], Ts[sw[MinOf(bad)]]>>)
        ELSE Ok([k \in 1..Len(data) |->
                    IF IsNaN(data[k]) THEN Interp(other, Ps[k], Ts[k]) ELSE data[k]])

(* Lines 588-596 and 629-651: the loop over the lower-mantle points undefined
   in the lower-mantle grid.  A point undefined in the upper-mantle grid too
   ends the run when its pressure is below 2500e9*ToBar; at or above it the
   entry takes LM_data[i+1], i being the loop counter. *)
RECURSIVE CascadeLM_From(_, _, _, _, _, _, _)
CascadeLM_From(data, sw, test, Ps, Ts, why, m) ==
    IF m > Len(sw) THEN Ok(data)
    ELSE IF IsNaN(test[m])
    THEN IF Lt(Ps[sw[m]], R(MantleCeiling)) THEN Exit(why, <<Ps[sw[m]], Ts[sw[m]]>>)
         ELSE IF m + 1 > Len(data) THEN Raise("IndexError")
         ELSE CascadeLM_From([data EXCEPT ![sw[m]] = data[m + 1]], sw, test, Ps, Ts, why, m + 1)
    ELSE CascadeLM_From([data EXCEPT ![sw[m]] = test[m]], sw, test, Ps, Ts, why, m + 1)

CascadeLM_T(own, other, Ps, Ts, why) ==
    LET data == InterpAll(own, Ps, Ts)
        sw == ToSwitch(data)
        test == InterpAll(other, Pick(Ps, sw), Pick(Ts, sw))
    IN  CascadeLM_From(data, sw, test, Ps, Ts, why, 1)

GetMantleValuesT(pressure, temperature, lay, gr) ==
    LET nm == lay[1]
        nc == lay[2]
    IN  IF Len(pressure) < nc + nm \/ Len(temperature) < nc + nm THEN Raise("IndexError")
        ELSE
        LET iLM == MantleIdxLM(pressure, nc, nm)
            iUM == MantleIdxUM(pressure, nc, nm)
            P_mantle == Slice(pressure, nc + 1, nc + nm)
            T_mantle == Slice(temperature, nc + 1, nc + nm)
            P_UM == Pick(P_mantle, iUM)
            T_UM == Pick(T_mantle, iUM)
            P_LM == Pick(P_mantle, iLM)
            T_LM == Pick(T_mantle, iLM)
            UM_cp == CascadeUM_T(gr[1].cp, gr[2].cp, P_UM, T_UM, "UM Cp Outside of range!")
            LM_cp == CascadeLM_T(gr[2].cp, gr[1].cp, P_LM, T_LM, "Specific Heat Exceeds Mantle Grids")
            UM_found == CascadeUM_T(gr[1].alpha, gr[2].alpha, P_UM, T_UM,
                                    "UM Alpha Outside of range!")
            UM_alpha == IF UM_found.kind = "exit" THEN Exit(UM_found.why, <<>>) ELSE UM_found
            LM_alpha == CascadeLM_T(gr[2].alpha, gr[1].alpha, P_LM, T_LM,
                                    "Thermal Expans Exceeds Mantle Grids")
        IN  IF UM_cp.kind # "ok" THEN UM_cp
            ELSE IF LM_cp.kind # "ok" THEN LM_cp
            ELSE IF UM_alpha.kind # "ok" THEN UM_alpha
            ELSE IF LM_alpha.kind # "ok" THEN LM_alpha
            ELSE Ok([alpha |-> Stitch(LM_alpha.val, UM_alpha.val),
                     cp |-> Stitch(LM_cp.val, UM_cp.val)])

-----------------------------------------------------------------------------
(* get_water_Cp and get_water_alpha.  pow(x, -0.9) is, like np.exp, a
   transcendental value: Pow09 is exact at 1, positive and strictly decreasing
   on the positive numbers, and undefined on the negative ones. *)

Pow09(x) ==
    IF IsNaN(x) \/ Lt(x, Zero) THEN NaN ELSE Div(One, x)

GPa(P) == Div(Div(P, R(10)), R(1000))

WaterCpFallback(P) ==
    Mul(R(1000), Add(Q(33, 10), Mul(Q(221, 10), Exp(Mul(Q(-58, 1000), GPa(P))))))

GetWaterCp(Pressure, Temperature, gr) ==
    IF ~gr[4].present THEN Raise("TypeError")
    ELSE LET Water_Cp == InterpAll(gr[4].cp, Pressure, Temperature)
         IN  Ok([k \in 1..Len(Water_Cp) |->
                    IF IsNaN(Water_Cp[k]) THEN WaterCpFallback(Pressure[k])
                    ELSE Water_Cp[k]])

WaterAlphaFallback(P, T) ==
    LET at == Add(Q(-39, 100000), Mul(Q(3, 2000000), T))
    IN  Mul(at, Pow09(Add(One, Mul(Div(Q(415, 100), Q(239, 10)), GPa(P)))))

GetWaterAlpha(Pressure, Temperature, gr) ==
    IF ~gr[4].present THEN Raise("TypeError")
    ELSE LET Water_alpha == InterpAll(gr[4].alpha, Pressure, Temperature)
         IN  Ok([k \in 1..Len(Water_alpha) |->
                    IF IsNaN(Water_alpha[k])
                    THEN WaterAlphaFallback(Pressure[k], Temperature[k])
                    ELSE Water_alpha[k]])

-----------------------------------------------------------------------------
(* get_temperature *)

(* Lines 727-731, 746-750, 778-782: for i = len-2 .. 0, an expansivity more
   than f times its outward neighbour is replaced by a linear extrapolation in
   depth through layers i+1 and i+5. *)
RECURSIVE AlphaSweepFrom(_, _, _, _)
AlphaSweepFrom(alpha, depths, f, i) ==
    IF i < 1 THEN [ok |-> TRUE, data |-> alpha]
    ELSE IF Gt(alpha[i], Mul(R(f), alpha[i + 1]))
    THEN IF i + 5 > Len(alpha) \/ i + 5 > Len(depths) THEN [ok |-> FALSE, data |-> alpha]
         ELSE LET dalpha_dr == Div(Sub(alpha[i + 1], alpha[i + 5]),
                                   Sub(depths[i + 1], depths[i + 5]))
                  new == Add(alpha[i + 1], Mul(Sub(depths[i], depths[i + 1]), dalpha_dr))
              IN  AlphaSweepFrom([alpha EXCEPT ![i] = new], depths, f, i - 1)
    ELSE AlphaSweepFrom(alpha, depths, f, i - 1)

AlphaSweep(alpha, depths, f) == AlphaSweepFrom(alpha, depths, f, Len(alpha) - 1)

(* Line 758: the seed of the mantle gradient under a water layer. *)
StartingGrad(wmb_pressure) ==
    Sub(Add(Q(41453, 10000000), Mul(Q(221, 100000), wmb_pressure)),
        Mul(Mul(Mul(wmb_pressure, Q(66523, 100000)), wmb_pressure), Q(1, 100000)))

(* burnman's liquid_iron().evaluate(['thermal_expansivity',
   'molar_heat_capacity_p'], P, T), tables like the density. *)
LiquidIronAlpha(min, Ppa, T) == Interp(min.liquid_iron.thermal_expansivity, Ppa, T)

LiquidIronCp(min, Ppa, T) == Interp(min.liquid_iron.molar_heat_capacity_p, Ppa, T)

(* Lines 694-702: the core's expansivity and specific heat as the core grid
   gives them. *)
CoreThermalGrid(gr, P_core, T_core) ==
    [alpha |-> InterpAll(gr[3].alpha, P_core, T_core),
     cp |-> InterpAll(gr[3].cp, P_core, T_core)]

(* Lines 801-816: a core layer with an undefined expansivity or specific heat
   takes both from liquid iron. *)
CoreThermalFallback(min, core_alpha, core_cp, P_core, T_core) ==
    LET miss == [k \in 1..Len(core_cp) |-> IsNaN(core_alpha[k]) \/ IsNaN(core_cp[k])]
    IN  [alpha |-> [k \in 1..Len(core_alpha) |->
                       IF k <= Len(core_cp) /\ miss[k]
                       THEN LiquidIronAlpha(min, Mul(P_core[k], R(ToPa)), T_core[k])
                       ELSE core_alpha[k]],
         cp |-> [k \in 1..Len(core_cp) |->
                    IF miss[k]
                    THEN Mul(LiquidIronCp(min, Mul(P_core[k], R(ToPa)), T_core[k]),
                             Div(R(1000), mFe))
                    ELSE core_cp[k]]]

(* The temperatures in the order of integration, top down, not reversed. *)
AdiabatForward(gradient, T0) == [j \in 1..Len(gradient) |-> Mul(Exp(gradient[j]), T0)]

(* [np.exp(i) * T0 for i in gradient][::-1] *)
Adiabat(gradient, T0) == Reverse([j \in 1..Len(gradient) |-> Mul(Exp(gradient[j]), T0)])

(* The spline degrees of lines 737-768 and 787-820. *)
TemperatureDegree(lay) ==
    IF lay[3] > 0 THEN [water |-> 3, rock |-> 5, core |-> 5]
    ELSE [water |-> 3, rock |-> 4, core |-> 3]

(* The three splines of one band: gravity, specific heat and expansivity over
   the band's depths, top down. *)
SplinesOK(x, g, cp, alpha, k) ==
    SplineOK(x, Reverse(g), k) /\ SplineOK(x, Reverse(cp), k) /\ SplineOK(x, Reverse(alpha), k)

(* The branch for a planet with water, lines 716-777.  J.water, J.rock and
   J.core are the integrals of alpha(x) g(x) / Cp(x) over the band's depths. *)
TemperatureWet(Pl, gr, sp, lay, mantle, J) ==
    LET nm == lay[1]
        nc == lay[2]
        depths == Depths(Pl.radius)
        k == TemperatureDegree(lay)
        P_water == PySlice(Pl.pressure, nc + nm, Len(Pl.pressure))
        T_water == PySlice(Pl.temperature, nc + nm, Len(Pl.temperature))
        depths_water == PySlice(depths, nc + nm, Len(depths))
        gravity_water == PySlice(Pl.gravity, nc + nm, Len(Pl.gravity))
        depths_mantle == PySlice(depths, nc, nc + nm)
        gravity_mantle == PySlice(Pl.gravity, nc, nc + nm)
        depths_core == PySlice(depths, 0, nc)
        gravity_core == PySlice(Pl.gravity, 0, nc)
        P_core == PySlice(Pl.pressure, 0, nc)
        T_core == PySlice(Pl.temperature, 0, nc)
        core_alpha == CoreThermalGrid(gr, P_core, T_core).alpha
        core_cp == CoreThermalGrid(gr, P_core, T_core).cp
        spec_heat_water == GetWaterCp(P_water, T_water, gr)
        found_alpha == GetWaterAlpha(P_water, T_water, gr)
        alpha_water == AlphaSweep(found_alpha.val, depths_water, 2)
        alpha_mant == AlphaSweep(mantle.alpha, depths_mantle, 2)
        wmb_pressure == GPa(Pl.pressure[nc + nm + 1])
        gradient_water == Odeint(Zero, J.water)
        gradient_mant == Odeint(StartingGrad(wmb_pressure), J.rock)
        gradient_core == Odeint(Zero, J.core)
        temperatures_water == Adiabat(gradient_water, sp.water_potential_temp)
        temperatures_mant == Adiabat(gradient_mant, sp.Mantle_potential_temp)
        temperatures_core == Adiabat(gradient_core, temperatures_mant[1])
    IN  IF spec_heat_water.kind # "ok" THEN spec_heat_water
        ELSE IF Len(P_water) # Len(T_water) THEN Raise("ValueError")
        ELSE IF ~alpha_water.ok THEN Raise("IndexError")
        ELSE IF ~SplinesOK(Reverse(depths_water), gravity_water, spec_heat_water.val,
                           alpha_water.data, k.water)
        THEN Raise("spline")
        ELSE IF ~alpha_mant.ok THEN Raise("IndexError")
        ELSE IF ~SplinesOK(Reverse(depths_mantle), gravity_mantle, mantle.cp,
                           alpha_mant.data, k.rock)
        THEN Raise("spline")
        ELSE IF Len(Pl.pressure) < nc + nm + 1 THEN Raise("IndexError")
        ELSE IF ~SplinesOK(Reverse(depths_core), gravity_core, core_cp, core_alpha, k.core)
        THEN Raise("spline")
        ELSE Ok(temperatures_core \o temperatures_mant \o temperatures_water)

(* The branch for a planet without water, lines 778-830. *)
TemperatureDry(Pl, gr, min, sp, lay, mantle, J) ==
    LET nm == lay[1]
        nc == lay[2]
        depths == Depths(Pl.radius)
        k == TemperatureDegree(lay)
        depths_mantle == PySlice(depths, nc, nc + nm)
        gravity_mantle == PySlice(Pl.gravity, nc, nc + nm)
        depths_core == PySlice(depths, 0, nc)
        gravity_core == PySlice(Pl.gravity, 0, nc)
        P_core == PySlice(Pl.pressure, 0, nc)
        T_core == PySlice(Pl.temperature, 0, nc)
        core == CoreThermalFallback(min, CoreThermalGrid(gr, P_core, T_core).alpha,
                                    CoreThermalGrid(gr, P_core, T_core).cp, P_core, T_core)
        alpha_mant == AlphaSweep(mantle.alpha, depths_mantle, 3)
        gradient_mant == Odeint(Zero, J.rock)
        gradient_core == Odeint(Zero, J.core)
        temperatures_mant == Adiabat(gradient_mant, sp.Mantle_potential_temp)
        temperatures_core == Adiabat(gradient_core, temperatures_mant[1])
    IN  IF ~alpha_mant.ok THEN Raise("IndexError")
        ELSE IF ~SplinesOK(Reverse(depths_mantle), gravity_mantle, mantle.cp,
                           alpha_mant.data, k.rock)
        THEN Raise("spline")
        ELSE IF ~SplinesOK(Reverse(depths_core), gravity_core, core.cp, core.alpha, k.core)
        THEN Raise("spline")
        ELSE Ok(temperatures_core \o temperatures_mant)

GetTemperature(Pl, gr, min, sp, lay, J) ==
    IF Len(PySlice(Pl.pressure, 0, lay[2])) # Len(PySlice(Pl.temperature, 0, lay[2]))
    THEN Raise("ValueError")
    ELSE IF Len(Pl.radius) = 0 THEN Raise("IndexError")
    ELSE LET mantle == GetMantleValuesT(Pl.pressure, Pl.temperature, lay, gr)
         IN  IF mantle.kind # "ok" THEN mantle
             ELSE IF lay[3] > 0 THEN TemperatureWet(Pl, gr, sp, lay, mantle.val, J)
             ELSE TemperatureDry(Pl, gr, min, sp, lay, mantle.val, J)

TemperatureQuads(lay, total, steps) == QuadRamps(lay, total, steps)

(* The call with the new temperatures written into the Planet State's own
   temperature sequence. *)
CallGetTemperatureInPlace ==
    /\ pc = "get_temperature"
    /\ \E J \in TemperatureQuads(layers, Len(Planet.radius), args.steps) :
         res' = GetTemperature(Planet, grids, minerals, args.structural_parameters,
                               layers, J)
    /\ Planet' = [Planet EXCEPT !.temperature = IF res'.kind = "ok" THEN res'.val ELSE @]
    /\ pc' = "returned"
    /\ UNCHANGED <<layers, grids, minerals, Core_wt_per, args>>

CallGetTemperature ==
    /\ pc = "get_temperature"
    /\ \E J \in TemperatureQuads(layers, Len(Planet.radius), args.steps) :
         res' = GetTemperature(Planet, grids, minerals, args.structural_parameters,
                               layers, J)
    /\ pc' = "returned"
    /\ UNCHANGED <<layers, Planet, grids, minerals, Core_wt_per, args>>

(* Inputs of get_temperature.  A dry planet of 5 mantle and 4 core layers and
   a wet one of 6 mantle, 6 core and 4 water layers, the smallest bands the
   splines accept.  Pressures in bar, falling outward, every layer at a point
   of its own: a shallow planet whose mantle lies wholly below the
   1,250,000 bar split, a deep one whose two innermost mantle layers lie above
   it, and one in which these two lie above 2500e9*ToBar; the water band
   starts at 100,000 bar and its layers lie 20,000 bar apart.  The grids hold,
   at the point of layer i, a value that names the grid and the layer; one
   layer may be a hole, in its own grid only or in the fallback as well.  The
   integrals of the adiabat are ramps; under water they are zero or undefined.
   A core has a hole only in the shallow planet, whose pressures in Pa the
   liquid-iron tables hold; the wet planet is shallow only then, and its rock
   then lies at lower pressures than its water. *)
TemperatureLayers == {<<5, 4, 0>>, <<6, 6, 4>>}

ProfileKinds == {"shallow", "deep", "ceiling"}

MantleT1 == R(1600)

WaterT1 == R(300)

CoreBase(pk) == IF pk = "shallow" THEN 20000 ELSE IF pk = "deep" THEN 3000000 ELSE 40000000

LowerBase(pk) == IF pk = "shallow" THEN 15000 ELSE IF pk = "deep" THEN 2000000 ELSE 30000000

UpperBase(pk) == IF pk = "shallow" THEN 15000 ELSE 1000000

TemperatureP(lay, pk) ==
    [i \in 1..Sum3(lay) |->
        IF i <= lay[2] THEN R(CoreBase(pk) - i)
        ELSE IF i <= lay[2] + 2 THEN R(LowerBase(pk) - i)
        ELSE IF i <= lay[2] + lay[1] THEN R(UpperBase(pk) - i)
        ELSE R(100000 - 20000 * (i - lay[2] - lay[1] - 1))]

TemperatureT(lay) ==
    [i \in 1..Sum3(lay) |-> IF i <= lay[2] + lay[1] THEN MantleT1 ELSE WaterT1]

(* The layer whose point x is. *)
LayerAt(P, T, x) == CHOOSE i \in 1..Len(P) : <<P[i], T[i]>> = x

(* A table over the points of the layers I, base + i at layer i, undefined at
   the layers of hole. *)
LayerTable(P, T, I, base, hole) ==
    [x \in {<<P[i], T[i]>> : i \in I} |->
        IF LayerAt(P, T, x) \in hole THEN NaN ELSE R(base + LayerAt(P, T, x))]

ThermalGrid(P, T, I, cp_base, alpha_base, hole, prop) ==
    [present |-> TRUE,
     density |-> NoTab,
     cp |-> LayerTable(P, T, I, cp_base, IF prop = "cp" THEN hole ELSE {}),
     alpha |-> LayerTable(P, T, I, alpha_base, IF prop = "alpha" THEN hole ELSE {})]

(* Liquid iron over the core points in Pa; only a shallow core is looked up. *)
IronTable(P, T, I, base, hole) ==
    [x \in {<<Mul(P[i], R(ToPa)), T[i]>> : i \in I} |->
        IF (CHOOSE i \in I : <<Mul(P[i], R(ToPa)), T[i]>> = x) \in hole THEN NaN
        ELSE R(base + (CHOOSE i \in I : <<Mul(P[i], R(ToPa)), T[i]>> = x))]

InitTemperature ==
    /\ layers \in TemperatureLayers
    /\ \E pk \in ProfileKinds, h \in 0..Sum3(layers), prop \in {"cp", "alpha"},
          both \in BOOLEAN :
         LET P == TemperatureP(layers, pk)
             T == TemperatureT(layers)
             n == Sum3(layers)
             own == {h} \cap (1..n)
             other == IF both THEN own ELSE {}
             lower == {i \in MantleIdx(layers) : Ge(P[i], R(MantleSplit))}
             upper == MantleIdx(layers) \ lower
         IN  /\ (layers[3] > 0 /\ h \notin CoreIdx(layers)) => pk # "shallow"
             /\ h \in CoreIdx(layers) => pk = "shallow"
             /\ Planet = [PlanetPT(P, T) EXCEPT
                             !.radius = Ramp(0, n), !.gravity = Const(n, One)]
             /\ grids = <<ThermalGrid(P, T, MantleIdx(layers), 1000, 10,
                                      (own \cap upper) \cup (other \cap lower), prop),
                          ThermalGrid(P, T, MantleIdx(layers), 2000, 20,
                                      (own \cap lower) \cup (other \cap upper), prop),
                          ThermalGrid(P, T, CoreIdx(layers), 3000, 30, own, prop),
                          IF layers[3] > 0
                          THEN ThermalGrid(P, T, WaterIdx(layers), 4000, 40, own, prop)
                          ELSE NoGrid>>
             /\ minerals =
                  [NoMinerals EXCEPT
                     !.liquid_iron.thermal_expansivity =
                        IF pk = "shallow"
                        THEN IronTable(P, T, CoreIdx(layers), 50,
                                       IF prop = "alpha" THEN other ELSE {})
                        ELSE NoTab,
                     !.liquid_iron.molar_heat_capacity_p =
                        IF pk = "shallow"
                        THEN IronTable(P, T, CoreIdx(layers), 60,
                                       IF prop = "cp" THEN other ELSE {})
                        ELSE NoTab]
    /\ Core_wt_per = PureFe
    /\ args = [NoArgs EXCEPT !.steps = IF layers[3] > 0 THEN {NaN, Zero} ELSE QuadSteps]
    /\ pc = "get_temperature"
    /\ res = Ok(<<>>)

NextTemperature == CallGetTemperature

SpecTemperature == InitTemperature /\ [][NextTemperature]_vars

-----------------------------------------------------------------------------
(* get_temperature on an expansivity profile with one outlier.  A dry planet
   of 6 mantle and 4 core layers and a wet one of 6 layers in every band; the
   expansivity of a band rises by one per layer outward, and one layer of the
   mantle or of the water holds f times its outward neighbour's value, or one
   more than that, for f = 2 and f = 3. *)
AlphaLayers == {<<6, 4, 0>>, <<6, 6, 6>>}

OutlierTable(P, T, I, base, o, v) ==
    [x \in {<<P[i], T[i]>> : i \in I} |->
        IF LayerAt(P, T, x) = o THEN R(v) ELSE R(base + LayerAt(P, T, x))]

InitAlpha ==
    /\ layers \in AlphaLayers
    /\ \E o \in MantleIdx(layers) \cup WaterIdx(layers), f \in {2, 3}, d \in {0, 1} :
         LET P == TemperatureP(layers, IF layers[3] > 0 THEN "deep" ELSE "shallow")
             T == TemperatureT(layers)
             n == Sum3(layers)
             v == f * (10 + o + 1) + d
             mantle == [ThermalGrid(P, T, MantleIdx(layers), 1000, 10, {}, "cp")
                           EXCEPT !.alpha = OutlierTable(P, T, MantleIdx(layers), 10, o, v)]
             water == [ThermalGrid(P, T, WaterIdx(layers), 4000, 10, {}, "cp")
                           EXCEPT !.alpha = OutlierTable(P, T, WaterIdx(layers), 10, o, v)]
         IN  /\ o + 1 \in MantleIdx(layers) \cup WaterIdx(layers)
             /\ o # layers[2] + layers[1]
             /\ Planet = [PlanetPT(P, T) EXCEPT
                             !.radius = Ramp(0, n), !.gravity = Const(n, One)]
             /\ grids = <<mantle, mantle,
                          ThermalGrid(P, T, CoreIdx(layers), 3000, 30, {}, "cp"),
                          IF layers[3] > 0 THEN water ELSE NoGrid>>
    /\ minerals = NoMinerals
    /\ Core_wt_per = PureFe
    /\ args = [NoArgs EXCEPT !.steps = IF layers[3] > 0 THEN {NaN, Zero} ELSE QuadSteps]
    /\ pc = "get_temperature"
    /\ res = Ok(<<>>)

NextAlpha == CallGetTemperature

SpecAlpha == InitAlpha /\ [][NextAlpha]_vars

-----------------------------------------------------------------------------
(* A run: run_planet_radius / run_planet_mass (run_planet.py) around the
   convergence controller.  The controller, functions.find_Planet_radius and
   find_Planet_mass, follows the stage order and the stopping rule of the
   specification's state machine; the stages are the functions above, called on
   the Planet State and storing what they return into it.  sys.exit() and an
   uncaught exception both unwind through the controller and run_planet_*,
   neither of which catches anything. *)

MaxIter == 2

(* run_planet passing the empty placeholder whatever the layer counts. *)
BuildGridsNever ==
    /\ pc = "run_planet"
    /\ grids' = [grids EXCEPT ![4] = NoGrid]
    /\ pc' = "density"
    /\ UNCHANGED <<layers, Planet, minerals, Core_wt_per, args, res>>

(* Lines 57-61 and 118-122: the water grid is built only for a planet with
   water layers; otherwise the fourth grid is the empty placeholder. *)
BuildGrids ==
    /\ pc = "run_planet"
    /\ grids' = [grids EXCEPT ![4] = IF layers[3] > 0 THEN grids[4] ELSE NoGrid]
    /\ pc' = "density"
    /\ UNCHANGED <<layers, Planet, minerals, Core_wt_per, args, res>>

(* One stage: its outcome is kept in res; a returned profile is stored into the
   Planet State and the run moves on; sys.exit() ends the run as fatal, an
   exception as crashed, and nothing is stored. *)
Stage(out, field, next) ==
    /\ res' = out
    /\ Planet' = IF out.kind = "ok" THEN [Planet EXCEPT ![field] = out.val] ELSE Planet
    /\ pc' = IF out.kind = "ok" THEN next
             ELSE IF out.kind = "exit" THEN "fatal" ELSE "crashed"

StepDensity ==
    /\ pc = "density"
    /\ args.n_iter < MaxIter
    /\ Stage(GetRho(Planet, grids, minerals, Core_wt_per, layers), "density", "gravity")
    /\ args' = [args EXCEPT !.n_iter = @ + 1, !.old_rho = Planet.density]
    /\ UNCHANGED <<layers, grids, minerals, Core_wt_per>>

StepGravity ==
    /\ pc = "gravity"
    /\ \E J \in QuadRamps(layers, Len(Planet.radius), args.steps) :
         Stage(GetGravity(Planet, layers, J), "gravity", "pressure")
    /\ UNCHANGED <<layers, grids, minerals, Core_wt_per, args>>

StepPressure ==
    /\ pc = "pressure"
    /\ \E J \in PressureQuads(Planet, layers, args.quad, args.steps) :
         Stage(GetPressure(Planet, layers, J), "pressure", "temperature")
    /\ UNCHANGED <<layers, grids, minerals, Core_wt_per, args>>

StepTemperature ==
    /\ pc = "temperature"
    /\ \E J \in TemperatureQuads(layers, Len(Planet.radius), args.steps) :
         Stage(GetTemperature(Planet, grids, minerals, args.structural_parameters,
                              layers, J), "temperature", "radius")
    /\ UNCHANGED <<layers, grids, minerals, Core_wt_per, args>>

StepRadius ==
    /\ pc = "radius"
    /\ Stage(GetRadius(Planet, args.wt_frac_water, args.core_mass_frac, layers),
             "radius", "compare")
    /\ UNCHANGED <<layers, grids, minerals, Core_wt_per, args>>

(* The stopping rule: converged ends the loop, an unconverged profile starts the
   next iteration, and the loop gives up after MaxIter iterations. *)
StepCompare ==
    /\ pc = "compare"
    /\ LET out == CheckConvergence(Planet.density, args.old_rho)
       IN  /\ res' = out
           /\ pc' = IF out.kind # "ok" THEN "crashed"
                    ELSE IF out.flag THEN "converged"
                    ELSE IF args.n_iter >= MaxIter THEN "nonconverged"
                    ELSE "density"
    /\ UNCHANGED <<layers, Planet, grids, minerals, Core_wt_per, args>>

(* Lines 72-78 and 133-140: run_planet_* returns the Planet State the
   controller hands back. *)
ReturnPlanet ==
    /\ pc = "converged"
    /\ res' = Ok(Planet)
    /\ pc' = "done"
    /\ UNCHANGED <<layers, Planet, grids, minerals, Core_wt_per, args>>

(* The runs: three layer triples, an initial guess whose pressure falls by
   1 Pa per layer from the centre, and grids that are tables over the pressures
   and temperatures a run can visit.  The density is flat or graded in pressure;
   a hole leaves one property undefined in both mantle grids, at the guess of
   the outermost mantle layer (density) or everywhere (specific heat). *)
RunLayers == {<<3, 3, 0>>, <<5, 5, 0>>, <<4, 4, 4>>}

RunKinds == {"flat", "graded", "density hole", "cp hole"}

RunSteps == {Zero, One}

PaStep(k) == Mul(Add(SurfacePressure, R(k)), ToBar)

GuessP(n) == [i \in 1..n |-> PaStep(n - i)]

RunT == R(1600)

RunPs(n) == {PaStep(k) : k \in 0..n}

RunTs(n) == {Mul(RunT, R(a * b)) : a \in 1..n, b \in 1..n}

RunPoints(n) == RunPs(n) \X RunTs(n)

RunDensity(kind, lay, x) ==
    IF kind = "density hole" /\ x = <<PaStep(lay[3]), RunT>> THEN NaN
    ELSE IF kind = "graded" THEN Add(R(3), Mul(Sub(x[1], One), R(ToPa)))
    ELSE R(3)

RunMantleGrid(kind, lay) ==
    LET n == Sum3(lay)
    IN  [present |-> TRUE,
         density |-> [x \in RunPoints(n) |-> RunDensity(kind, lay, x)],
         cp |-> [x \in RunPoints(n) |-> IF kind = "cp hole" THEN NaN ELSE One],
         alpha |-> [x \in RunPoints(n) |-> One]]

RunGrid(n, rho) ==
    [present |-> TRUE,
     density |-> [x \in RunPoints(n) |-> R(rho)],
     cp |-> [x \in RunPoints(n) |-> One],
     alpha |-> [x \in RunPoints(n) |-> One]]

InitRun ==
    /\ layers \in RunLayers
    /\ Planet = [pressure |-> GuessP(Sum3(layers)),
                 temperature |-> Const(Sum3(layers), RunT),
                 density |-> Const(Sum3(layers), R(3)),
                 gravity |-> Const(Sum3(layers), Zero),
                 radius |-> Ramp(0, Sum3(layers)),
                 mass |-> <<R(24)>>]
    /\ \E kind \in RunKinds :
         grids = <<RunMantleGrid(kind, layers), RunMantleGrid(kind, layers),
                   RunGrid(Sum3(layers), 9), RunGrid(Sum3(layers), 1)>>
    /\ minerals = NoMinerals
    /\ Core_wt_per = PureFe
    /\ args = [NoArgs EXCEPT !.quad = "ramp", !.steps = RunSteps,
                             !.core_mass_frac = Q(1, 3),
                             !.wt_frac_water = IF layers[3] > 0 THEN Q(1, 2) ELSE Zero]
    /\ pc = "run_planet"
    /\ res = Ok(<<>>)

Next ==
    \/ BuildGrids
    \/ StepDensity
    \/ StepGravity
    \/ StepPressure
    \/ StepTemperature
    \/ StepRadius
    \/ StepCompare
    \/ ReturnPlanet

Spec == InitRun /\ [][Next]_vars

(* Every table of the mantle and core grids is defined at every point. *)
GridsDefined ==
    \A g \in 1..3 : \A x \in DOMAIN grids[g].density :
        /\ ~IsNaN(grids[g].density[x])
        /\ ~IsNaN(grids[g].cp[x])
        /\ ~IsNaN(grids[g].alpha[x])

(* C6 as stated: with 3 core layers, 3 mantle layers, no water, a pure-iron
   core, a mantle potential temperature of 1600 K and grids defined everywhere,
   no stage of the run ends in an error. *)
C6_StagesComplete ==
    (/\ layers = <<3, 3, 0>>
     /\ Core_wt_per = PureFe
     /\ args.structural_parameters.Mantle_potential_temp = R(1600)
     /\ GridsDefined)
       => pc # "crashed"

(* Some mantle layer of the Planet State is undefined in both mantle grids. *)
MantleUndefined ==
    \E i \in MantleIdx(layers) :
        /\ IsNaN(Interp(grids[1].density, Planet.pressure[i], Planet.temperature[i]))
        /\ IsNaN(Interp(grids[2].density, Planet.pressure[i], Planet.temperature[i]))

FatalStep ==
    /\ pc # "fatal"
    /\ (pc = "density" /\ MantleUndefined) => pc' = "fatal"
    /\ res'.kind = "exit" => (pc' = "fatal" /\ Planet' = Planet)
    /\ pc' = "done" => (pc = "converged" /\ res.kind = "ok")

(* C10: a fatal domain condition propagates immediately.  A density stage that
   meets a mantle layer undefined in both mantle grids ends the run as fatal; a
   stage that exits stores nothing into the Planet State; no step is taken
   from a fatal run, so no later stage or iteration runs and run_planet_*
   returns nothing; a Planet State is returned only from a converged run. *)
C10_FatalPropagates == [][FatalStep]_vars

(* A run that ended as fatal in its density stage, on a mantle layer undefined
   in both mantle grids. *)
C10_Witness ==
    /\ pc = "fatal"
    /\ res.kind = "exit"
    /\ res.why = "Exceeds UM Mantle Grids"
    /\ MantleUndefined
    /\ args.n_iter = 1

-----------------------------------------------------------------------------
(* The outcomes of a run. *)

(* Layer i of the run's density differs from the previous iteration's by at
   least the tolerance. *)
RunDiffers(i) ==
    Ge(Abs(Sub(One, Div(args.old_rho[i], Planet.density[i]))), Tolerance)

(* C11: a run whose loop uses up its iterations without a verdict of converged
   ends as non-converged, an outcome apart from converged and from fatal: the
   iteration count never passes the maximum; a non-converged run has used every
   iteration, its last comparison found a layer outside the tolerance, and it
   returns no Planet State; a run that converged or returned has no layer
   outside the tolerance. *)
C11_NonConvergenceDistinct ==
    /\ args.n_iter <= MaxIter
    /\ pc = "nonconverged" =>
          /\ res.kind = "ok"
          /\ ~res.flag
          /\ args.n_iter = MaxIter
          /\ \E i \in 2..Len(Planet.density) : RunDiffers(i)
    /\ pc \in {"converged", "done"} =>
          ~(\E i \in 2..Len(Planet.density) : RunDiffers(i))

(* A run that used every iteration and ended as non-converged. *)
C11_Witness ==
    /\ pc = "nonconverged"
    /\ args.n_iter = MaxIter
    /\ \E i \in 2..Len(Planet.density) : RunDiffers(i)

-----------------------------------------------------------------------------
(* The five stages side by side, each on the inputs of its own specification. *)

InitStages ==
    \/ InitRho
    \/ InitGravity
    \/ InitPressure
    \/ InitTemperature
    \/ InitRadius

NextStages ==
    \/ CallGetRho
    \/ CallGetGravity
    \/ CallGetPressure
    \/ CallGetTemperature
    \/ CallGetRadius

SpecStages == InitStages /\ [][NextStages]_vars

(* What a stage that returns hands back: one entry per layer, the core band
   first and the surface last. *)
StageShape ==
    LET n == Sum3(layers)
        nc == layers[2]
        out == res'.val
        sp == args.structural_parameters
    IN  (pc' = "returned" /\ res'.kind = "ok") =>
          /\ Len(out) = n
          /\ pc = "get_rho" =>
               PySlice(out, 0, nc) =
                  GetCoreRho(grids[3], minerals, Core_wt_per,
                             PySlice(Planet.pressure, 0, nc),
                             PySlice(Planet.temperature, 0, nc))
          /\ pc = "get_gravity" => out[1] = Zero
          /\ pc = "get_pressure" => out[n] = Mul(SurfacePressure, ToBar)
          /\ pc = "get_temperature" =>
               out[n] = IF layers[3] > 0 THEN sp.water_potential_temp
                        ELSE sp.Mantle_potential_temp
          /\ pc = "get_radius" => out[1] = Zero

(* C12: every stage that returns hands back exactly core + mantle + water
   values in centre-outward band order: get_rho's first core_layers values are
   the core densities, get_gravity and get_radius start with the centre's 0,
   get_pressure ends with the surface's 1 bar and get_temperature with the
   potential temperature of the outermost band. *)
C12_OneEntryPerLayer == [][StageShape]_vars

(* A planet with a water band whose temperature profile was returned. *)
C12_Witness ==
    /\ Returned
    /\ layers = <<6, 6, 4>>
    /\ Len(res.val) = 16
    /\ res.val[16] = WaterT1
    /\ Len(Planet.radius) = 16

-----------------------------------------------------------------------------
(* C13: for a density that is positive at every layer, a non-negative mass and
   mass fractions between 0 and 1, get_radius returns 0 at the innermost layer
   and a radius that never decreases outward, across the band boundaries
   too. *)
C13_RadiusNonDecreasing ==
    (/\ pc = "returned"
     /\ res.kind = "ok"
     /\ \A i \in 1..Len(Planet.density) : Gt(Planet.density[i], Zero)
     /\ Len(Planet.mass) > 0
     /\ Ge(Planet.mass[Len(Planet.mass)], Zero)
     /\ Ge(args.wt_frac_water, Zero) /\ Le(args.wt_frac_water, One)
     /\ Ge(args.core_mass_frac, Zero) /\ Le(args.core_mass_frac, One))
       => /\ res.val[1] = Zero
          /\ \A i \in 1..(Len(res.val) - 1) : Le(res.val[i], res.val[i + 1])

(* A planet of three bands with no mantle mass: the radius grows through the
   core and the water and stands still through the mantle. *)
C13_Witness ==
    /\ pc = "returned"
    /\ res.kind = "ok"
    /\ layers = <<2, 2, 2>>
    /\ args.core_mass_frac = One
    /\ args.wt_frac_water = Q(1, 2)
    /\ res.val[1] = Zero
    /\ Lt(res.val[1], res.val[2])
    /\ res.val[2] = res.val[4]
    /\ Lt(res.val[4], res.val[5])

-----------------------------------------------------------------------------
(* C14: the grids are read-only.  No call of a stage, with the lookups,
   cascades and fallbacks it makes, changes any grid. *)
C14_GridsReadOnly == [][grids' = grids]_vars

(* get_rho returned a liquid-iron value for a core layer that the core grid
   still leaves undefined. *)
C14_Witness ==
    /\ pc = "returned"
    /\ res.kind = "ok"
    /\ layers[2] > 0
    /\ Len(res.val) = Sum3(layers)
    /\ \E k \in CoreIdx(layers) :
         /\ <<Planet.pressure[k], Planet.temperature[k]>> \in DOMAIN grids[3].density
         /\ IsNaN(grids[3].density[<<Planet.pressure[k], Planet.temperature[k]>>])
         /\ ~IsNaN(res.val[k])

-----------------------------------------------------------------------------
(* The point get_rho reports when it exits is undefined in both mantle
   grids. *)
ReportedUndefined ==
    /\ Len(res.at) = 2
    /\ IsNaN(Interp(grids[1].density, res.at[1], res.at[2]))
    /\ IsNaN(Interp(grids[2].density, res.at[1], res.at[2]))

(* C15 as stated: when get_rho ends the run because a mantle layer is
   undefined in both mantle grids, the pressure and temperature it reports are
   those of a layer that both grids leave undefined. *)
C15_ReportsOffendingPoint ==
    (/\ pc = "returned"
     /\ res.kind = "exit"
     /\ res.why \in {"Exceeds UM Mantle Grids", "Exceeds LM Mantle Grids"})
       => ReportedUndefined

-----------------------------------------------------------------------------
(* C16 as stated: a core layer undefined in the core grid takes the
   liquid-iron density of its own pressure and temperature, and where liquid
   iron is undefined as well the run ends, so that get_rho never returns an
   undefined core density. *)
C16_CoreDensityDefined ==
    (pc = "returned" /\ res.kind = "ok" /\ Len(res.val) = Sum3(layers)) =>
        \A k \in CoreIdx(layers) :
            /\ ~IsNaN(res.val[k])
            /\ CoreFallsBack(k) => res.val[k] = Mul(CoreScale(Core_wt_per), IronValue(k))

-----------------------------------------------------------------------------
(* C17: the mantle density cascade. *)

(* The grid of mantle layer k's own region (2 lower mantle, 1 upper mantle) and
   the other mantle grid. *)
OwnGrid(k) == IF Ge(Planet.pressure[k], R(MantleSplit)) THEN 2 ELSE 1

OtherGrid(k) == 3 - OwnGrid(k)

GridDensity(g, k) == Interp(grids[g].density, Planet.pressure[k], Planet.temperature[k])

UndefinedInBoth(k) == IsNaN(GridDensity(1, k)) /\ IsNaN(GridDensity(2, k))

Resolved(k) ==
    IF ~IsNaN(GridDensity(OwnGrid(k), k)) THEN GridDensity(OwnGrid(k), k)
    ELSE GridDensity(OtherGrid(k), k)

(* The position of mantle layer k in the array handed to the repair sweep:
   the lower-mantle layers come first, each list in layer order. *)
StitchedPos(k) ==
    LET lower == {m \in MantleIdx(layers) : OwnGrid(m) = 2}
        upper == {m \in MantleIdx(layers) : OwnGrid(m) = 1}
    IN  IF k \in lower THEN Cardinality({m \in lower : m <= k})
        ELSE Cardinality(lower) + Cardinality({m \in upper : m <= k})

(* The array handed to the repair sweep by lines 132-135. *)
BeforeSweep ==
    LET nm == layers[1]
        nc == layers[2]
        iLM == MantleIdxLM(Planet.pressure, nc, nm)
        iUM == MantleIdxUM(Planet.pressure, nc, nm)
        P_mantle == Slice(Planet.pressure, nc + 1, nc + nm)
        T_mantle == Slice(Planet.temperature, nc + 1, nc + nm)
        UM == CascadeUM(grids[1].density, grids[2].density,
                        Pick(P_mantle, iUM), Pick(T_mantle, iUM))
        LM == CascadeLM(grids[2].density, grids[1].density,
                        Pick(P_mantle, iLM), Pick(T_mantle, iLM))
    IN  Stitch(LM.val, UM.val)

MantleExits == {"Exceeds UM Mantle Grids", "Exceeds LM Mantle Grids"}

(* C17: a mantle layer is lower mantle when its pressure is >= 1250000 bar and
   upper mantle otherwise; get_rho ends the run with a mantle-grid exit exactly
   when some mantle layer is undefined in both mantle grids (and no water layer
   ended the run first); otherwise the value handed to the repair sweep for each
   mantle layer is its own region's grid value when that is defined, else the
   other mantle grid's value, and a band that the sweep has nothing to repair
   in is returned with those values. *)
C17_MantleCascade ==
    pc = "returned" =>
      /\ (res.kind = "exit" /\ res.why \in MantleExits)
             => \E k \in MantleIdx(layers) : UndefinedInBoth(k)
      /\ (\E k \in MantleIdx(layers) : UndefinedInBoth(k)) => res.kind = "exit"
      /\ (res.kind # "exit" /\ Len(BeforeSweep) = layers[1]) =>
            \A k \in MantleIdx(layers) :
               /\ ~IsNaN(BeforeSweep[StitchedPos(k)])
               /\ BeforeSweep[StitchedPos(k)] = Resolved(k)
               /\ (res.kind = "ok" /\ layers[1] = 1) => res.val[k] = Resolved(k)

(* Two mantle layers, one on each side of the split at exactly 1250000 bar and
   just below it; the lower-mantle layer is defined in its own grid and in the
   other, and keeps its own value; the upper-mantle layer is undefined in its
   own grid and takes the lower-mantle grid's value. *)
C17_Witness ==
    /\ pc = "returned" /\ res.kind = "ok"
    /\ layers = <<2, 1, 0>>
    /\ Planet.pressure[2] = R(MantleSplit) /\ Planet.pressure[3] = R(MantleSplit - 1)
    /\ ~IsNaN(GridDensity(1, 2)) /\ ~IsNaN(GridDensity(2, 2))
    /\ BeforeSweep[1] = GridDensity(2, 2)
    /\ IsNaN(GridDensity(1, 3)) /\ BeforeSweep[2] = GridDensity(2, 3)

-----------------------------------------------------------------------------
(* C18: the water fallback and its limits. *)

WaterGridUndefined(k) == IsNaN(GridDensity(4, k))

AtLeast1BarAnd300K(k) ==
    Ge(Planet.pressure[k], R(1)) /\ Ge(Planet.temperature[k], R(300))

Below1BarOr300K(k) ==
    Lt(Planet.pressure[k], R(1)) \/ Lt(Planet.temperature[k], R(300))

(* The water densities handed to the repair sweep by lines 214-237. *)
WaterBeforeSweep ==
    LET first == layers[1] + layers[2] + 1
        P == Slice(Planet.pressure, first, Sum3(layers))
        T == Slice(Planet.temperature, first, Sum3(layers))
    IN  WaterFill(minerals, InterpAll(grids[4].density, P, T), P, T)

WaterExit == res.kind = "exit" /\ res.why = "outside of water grid"

(* C18: get_rho ends the run with the water-grid exit exactly when some water
   layer is undefined in the water grid at a pressure below 1 bar or a
   temperature below 300 K; otherwise every water layer undefined in the grid
   (all of them at >= 1 bar and >= 300 K) is handed to the repair sweep with the
   ice fallback value and every layer defined in the grid with its grid value;
   a band shorter than the sweep's reach is returned with exactly those
   values. *)
C18_WaterFallbackRange ==
    (pc = "returned" /\ layers[3] > 0) =>
      /\ WaterExit <=> \E k \in WaterIdx(layers) : WaterGridUndefined(k) /\ Below1BarOr300K(k)
      /\ ~WaterExit =>
           \A k \in WaterIdx(layers) :
             LET w == k - layers[1] - layers[2]
             IN /\ WaterGridUndefined(k) => AtLeast1BarAnd300K(k)
                /\ WaterBeforeSweep[w] = IF WaterGridUndefined(k) THEN IceValue(k)
                                         ELSE GridDensity(4, k)
                /\ (res.kind = "ok" /\ layers[3] <= 5)
                      => res.val[k] = WaterBeforeSweep[w]

(* Two water layers: one undefined in the grid at exactly 1 bar and 300 K is
   returned with the ice value, one defined in the grid at 0 bar and 299 K is
   returned with its grid value and ends nothing. *)
C18_Witness ==
    /\ pc = "returned" /\ res.kind = "ok"
    /\ layers = <<1, 1, 2>>
    /\ \E k, m \in WaterIdx(layers) :
         /\ WaterGridUndefined(k)
         /\ Planet.pressure[k] = R(1) /\ Planet.temperature[k] = R(300)
         /\ res.val[k] = IceValue(k)
         /\ ~WaterGridUndefined(m)
         /\ Planet.pressure[m] = R(0) /\ Planet.temperature[m] = R(299)
         /\ res.val[m] = GridDensity(4, m)

-----------------------------------------------------------------------------
(* C19: the cascade of get_mantle_values_T. *)

GridCp(g, k) == Interp(grids[g].cp, Planet.pressure[k], Planet.temperature[k])

GridAlpha(g, k) == Interp(grids[g].alpha, Planet.pressure[k], Planet.temperature[k])

ThermalUndefinedInBoth(k) ==
    \/ IsNaN(GridCp(1, k)) /\ IsNaN(GridCp(2, k))
    \/ IsNaN(GridAlpha(1, k)) /\ IsNaN(GridAlpha(2, k))

(* C19 as stated: at every pressure, a mantle layer whose specific heat or
   expansivity is undefined in both mantle grids ends the run: get_temperature
   does not return a profile computed with a value taken from another layer. *)
C19_ThermalCascadeAborts ==
    (pc = "returned" /\ \E k \in MantleIdx(layers) : ThermalUndefinedInBoth(k))
        => res.kind = "exit"

-----------------------------------------------------------------------------
(* C20: the liquid-iron fallback of the core's expansivity and specific heat. *)

CoreThermalUndefined(k) == IsNaN(GridAlpha(3, k)) \/ IsNaN(GridCp(3, k))

IronAlphaValue(k) ==
    LiquidIronAlpha(minerals, Mul(Planet.pressure[k], R(ToPa)), Planet.temperature[k])

IronCpValue(k) ==
    Mul(LiquidIronCp(minerals, Mul(Planet.pressure[k], R(ToPa)), Planet.temperature[k]),
        Div(R(1000), mFe))

(* The expansivity and specific heat the core splines are built from: lines
   766-768 under water, lines 818-820 without. *)
CoreSplineData ==
    LET P_core == PySlice(Planet.pressure, 0, layers[2])
        T_core == PySlice(Planet.temperature, 0, layers[2])
        found == CoreThermalGrid(grids, P_core, T_core)
    IN  IF layers[3] > 0 THEN found
        ELSE CoreThermalFallback(minerals, found.alpha, found.cp, P_core, T_core)

CoreReplaced(k) ==
    /\ CoreSplineData.alpha[k] = IronAlphaValue(k)
    /\ CoreSplineData.cp[k] = IronCpValue(k)

(* C20 as stated: with or without a water band, every core layer whose grid
   expansivity or specific heat is undefined enters the integration of the core
   adiabat with the liquid-iron expansivity and specific heat. *)
C20_CoreThermalFallback ==
    (pc = "returned" /\ res.kind = "ok") =>
        \A k \in CoreIdx(layers) : CoreThermalUndefined(k) => CoreReplaced(k)

-----------------------------------------------------------------------------
(* C21: the seed of the mantle adiabat. *)

(* The outermost mantle layer and the pressure at the mantle's upper boundary:
   the innermost water layer's, or the surface's where there is no water. *)
MantleTopIdx == layers[2] + layers[1]

BoundaryPressure ==
    IF layers[3] > 0 THEN Planet.pressure[MantleTopIdx + 1]
    ELSE Planet.pressure[Sum3(layers)]

(* The temperature of the outermost mantle layer is exp(seed) times the mantle
   potential temperature, so a seed other than zero leaves it different from
   the potential temperature. *)
SeededNonZero == res.val[MantleTopIdx] # args.structural_parameters.Mantle_potential_temp

SeededEmpirical ==
    res.val[MantleTopIdx] =
        Mul(Exp(StartingGrad(GPa(BoundaryPressure))),
            args.structural_parameters.Mantle_potential_temp)

(* C21 as stated: with or without water, get_temperature starts the mantle
   adiabat from the empirical gradient at the pressure of the mantle's upper
   boundary and never from zero. *)
C21_MantleSeed ==
    (pc = "returned" /\ res.kind = "ok") => (SeededNonZero /\ SeededEmpirical)

-----------------------------------------------------------------------------
(* C22: the core adiabat is anchored to the mantle. *)

(* The core band's integrated log-gradient at core layer k for an integral
   that grows by c per layer from the top of the core: zero at the outermost
   core layer. *)
CoreLogGradient(k, c) == IF k = layers[2] THEN Zero ELSE Mul(R(layers[2] - k), c)

AnchoredToMantle(c) ==
    \A k \in CoreIdx(layers) :
        res.val[k] = Mul(Exp(CoreLogGradient(k, c)), res.val[layers[2] + 1])

(* C22: with or without water, in the profile get_temperature returns the
   outermost core layer has the temperature of the innermost mantle layer, and
   every core temperature is the innermost mantle temperature times exp of the
   core's integrated log-gradient. *)
C22_CoreAnchoredToMantle ==
    (pc = "returned" /\ res.kind = "ok") =>
        /\ res.val[layers[2]] = res.val[layers[2] + 1]
        /\ \E c \in args.steps : AnchoredToMantle(c)

(* A profile whose innermost mantle temperature differs from the potential
   temperature and whose core gradient is not zero: the core temperatures
   follow the mantle's, not the potential temperature. *)
C22_Witness ==
    /\ pc = "returned" /\ res.kind = "ok"
    /\ ~IsNaN(res.val[1])
    /\ res.val[layers[2] + 1] # args.structural_parameters.Mantle_potential_temp
    /\ res.val[1] # res.val[layers[2]]
    /\ res.val[layers[2]] = res.val[layers[2] + 1]
    /\ \E c \in args.steps : c # Zero /\ AnchoredToMantle(c)
    /\ \A c \in args.steps :
         res.val[1] # Mul(Exp(CoreLogGradient(1, c)),
                          args.structural_parameters.Mantle_potential_temp)

-----------------------------------------------------------------------------
(* C23: the pressure at the surface and across the band boundaries. *)

(* C23: get_pressure returns exactly 1 bar at the outermost layer; the
   outermost core layer has the pressure of the innermost mantle layer, and with
   a water band the outermost mantle layer has the pressure of the innermost
   water layer: each band starts where the band above it ended. *)
C23_SurfaceAndBandStarts ==
    (pc = "returned" /\ res.kind = "ok") =>
        /\ res.val[Sum3(layers)] = R(1)
        /\ res.val[layers[2]] = res.val[layers[2] + 1]
        /\ layers[3] > 0 => res.val[MantleTopIdx] = res.val[MantleTopIdx + 1]

(* A planet with water whose pressure rises inward in every band: the
   water-mantle and the core-mantle boundary pressures differ from 1 bar and
   from each other. *)
C23_Witness ==
    /\ pc = "returned" /\ res.kind = "ok"
    /\ layers[3] > 0
    /\ res.val[Sum3(layers)] = R(1)
    /\ Gt(res.val[MantleTopIdx + 1], R(1))
    /\ res.val[MantleTopIdx] = res.val[MantleTopIdx + 1]
    /\ Gt(res.val[layers[2] + 1], res.val[MantleTopIdx])
    /\ res.val[layers[2]] = res.val[layers[2] + 1]
    /\ Gt(res.val[1], res.val[layers[2]])

-----------------------------------------------------------------------------
(* C24: the smoothing of the expansivity. *)

AlphaFactor == IF layers[3] > 0 THEN 2 ELSE 3

(* The expansivities of a band (1 mantle, 3 water) before the smoothing, and
   the band's depths. *)
BandAlpha(b) ==
    IF b = 1
    THEN GetMantleValuesT(Planet.pressure, Planet.temperature, layers, grids).val.alpha
    ELSE GetWaterAlpha(PySlice(Planet.pressure, MantleTopIdx, Sum3(layers)),
                       PySlice(Planet.temperature, MantleTopIdx, Sum3(layers)), grids).val

BandDepths(b) ==
    IF b = 1 THEN PySlice(Depths(Planet.radius), layers[2], MantleTopIdx)
    ELSE PySlice(Depths(Planet.radius), MantleTopIdx, Sum3(layers))

BandsSmoothed == IF layers[3] > 0 THEN {1, 3} ELSE {1}

(* Layer i of band b is more than the factor times its outward neighbour. *)
AlphaOutlier(b, i) == Gt(BandAlpha(b)[i], Mul(R(AlphaFactor), BandAlpha(b)[i + 1]))

(* The value at layer i of the line through layers j and k, in depth. *)
ExtrapolateAlpha(b, j, k, i) ==
    Add(BandAlpha(b)[j],
        Mul(Sub(BandDepths(b)[i], BandDepths(b)[j]),
            Div(Sub(BandAlpha(b)[j], BandAlpha(b)[k]),
                Sub(BandDepths(b)[j], BandDepths(b)[k]))))

SmoothedAlpha(b) == AlphaSweep(BandAlpha(b), BandDepths(b), AlphaFactor)

(* C24 as stated: whenever a mantle or water layer's expansivity is more than
   2 (with water) or 3 (without) times that of its outward neighbour,
   get_temperature goes on and integrates with that layer's value replaced by
   the linear extrapolation in depth through two layers of the band that lie
   deeper than it. *)
C24_AlphaSmoothing ==
    pc = "returned" =>
        \A b \in BandsSmoothed : \A i \in 1..(Len(BandAlpha(b)) - 1) :
            AlphaOutlier(b, i) =>
                /\ res.kind = "ok"
                /\ SmoothedAlpha(b).ok
                /\ \E j, k \in 1..(i - 1) :
                      j # k /\ SmoothedAlpha(b).data[i] = ExtrapolateAlpha(b, j, k, i)

-----------------------------------------------------------------------------
(* C25: the alignment of the stitched mantle. *)

(* C25 as stated: for every mantle pressure profile, whatever the order of
   the layers around the 1250000 bar split, the density get_rho returns at a
   mantle position is the one resolved from that layer's own pressure and
   temperature (stated for the bands too short for the repair sweep to rewrite
   a layer). *)
C25_StitchedAligned ==
    (pc = "returned" /\ res.kind = "ok" /\ layers[1] <= 5) =>
        \A k \in MantleIdx(layers) : res.val[k] = Resolved(k)

-----------------------------------------------------------------------------
(* C26: the repair sweep and the ends of its band. *)

(* C26 as stated: in a mantle or water band of at least 2 layers the density
   sweep finds the layer it reads at offset i+5 inside the band wherever the
   violation lies, and get_rho never ends in an index error. *)
C26_SweepStaysInBand ==
    (pc = "returned" /\ (layers[1] >= 2 \/ layers[3] >= 2)) =>
        ~(res.kind = "raise" /\ res.why = "IndexError")

-----------------------------------------------------------------------------
(* C27: what the density repair sweep changes. *)

(* The density of mantle or water layer k as it enters the sweep of its band. *)
EntersSweep(k) ==
    IF k \in MantleIdx(layers) THEN BeforeSweep[k - layers[2]]
    ELSE WaterBeforeSweep[k - layers[2] - layers[1]]

SweptIdx == MantleIdx(layers) \cup (IF layers[3] > 0 THEN WaterIdx(layers) ELSE {})

EntersNonIncreasing == \A k \in BandPairs(layers) : Ge(EntersSweep(k), EntersSweep(k + 1))

(* C27: get_rho returns mantle or water layer i with a density other than
   the one that entered the sweep only if the outward neighbour i+1, as the
   sweep left it, is strictly denser than the value that entered; the outermost
   layer of a band and every core layer are returned as they entered, and so
   is every layer of a profile that entered non-increasing outward. *)
C27_SweepChangesOnlyViolations ==
    (pc = "returned" /\ res.kind = "ok") =>
        /\ \A k \in SweptIdx :
             res.val[k] # EntersSweep(k)
                => (k \in BandPairs(layers) /\ Gt(res.val[k + 1], EntersSweep(k)))
        /\ \A k \in CoreIdx(layers) :
             res.val[k] = Mul(CoreScale(Core_wt_per), GridDensity(3, k))
        /\ EntersNonIncreasing => \A k \in SweptIdx : res.val[k] = EntersSweep(k)

(* A 6-layer mantle whose innermost layer was rewritten, its neighbour being
   denser, and whose other layers and core were returned as they entered. *)
C27_Witness ==
    /\ pc = "returned" /\ res.kind = "ok"
    /\ layers = <<SweepLen, 1, 0>>
    /\ res.val[2] # EntersSweep(2)
    /\ Gt(res.val[3], EntersSweep(2))
    /\ \A k \in MantleIdx(layers) \ {2} : res.val[k] = EntersSweep(k)
    /\ res.val[1] = GridDensity(3, 1)

-----------------------------------------------------------------------------
(* C28: the stages leave the Planet State as they were given it.  No call of
   get_rho, get_gravity, get_pressure, get_temperature or get_radius changes
   the pressure, temperature, density, gravity, radius or mass it was given:
   what it returns is a sequence of its own. *)
C28_InputsIntact == [][Planet' = Planet]_vars

(* get_temperature returned temperatures other than the ones it was given, and
   the Planet State still holds the ones it was given. *)
C28_Witness ==
    /\ pc = "returned" /\ res.kind = "ok"
    /\ Len(Planet.radius) = Sum3(layers)
    /\ Len(Planet.temperature) = Sum3(layers)
    /\ Len(res.val) = Sum3(layers)
    /\ res.val # Planet.temperature
    /\ \A k \in CoreIdx(layers) \cup MantleIdx(layers) : Planet.temperature[k] = MantleT1

-----------------------------------------------------------------------------
(* C29: the water grid is used only when it exists.  Once run_planet has
   built the grids, the fourth grid is a water grid exactly when the planet has
   water layers and the empty placeholder otherwise; and in a run without water
   layers no stage ends in the error that a lookup in the placeholder raises. *)
C29_WaterGridOnlyIfPresent ==
    /\ pc # "run_planet" => (grids[4].present <=> layers[3] > 0)
    /\ layers[3] = 0 => ~(res.kind = "raise" /\ res.why = "TypeError")

(* A run without water layers, given the placeholder, has passed get_rho and
   get_temperature and reached get_radius. *)
C29_Witness ==
    /\ pc = "radius" /\ res.kind = "ok"
    /\ layers[3] = 0
    /\ grids[4] = NoGrid
    /\ Len(Planet.density) = Sum3(layers)
    /\ Len(Planet.temperature) = Sum3(layers)

=============================================================================
